---- MODULE Spec2Model ----
\* Model of the Idea Shaper web client.
\*   - renderMarkdown, the regular-expression pipeline inside
\*     MarkdownRenderer, and SyntaxHighlighter
\*     (src/frontend/lib/markdown.tsx).  Strings are sequences of
\*     one-character strings, so every substitution is computed character by
\*     character exactly as String.prototype.replace / split / trim / join do.
\*   - ConversationSearch, the debounced search box (src/unnamed/part_006).
\*   - Home, the chat page with its modals, keyboard shortcuts, export and
\*     message exchange (src/unnamed/part_002).
\* Each component has its own specification; the variables of the other
\* components stay at their initial values.
EXTENDS Integers, Sequences, FiniteSets, TLC

\* renderMarkdown
VARIABLES pending, content, pc, html, lines, i, inList, processedLines,
          result, history

\* ConversationSearch: the useState cells, the pending debounce timer (a
\* sequence of at most one closure), the requests in flight and the log of the responses in the order they arrived.
VARIABLES searchQuery, searchResults, searchIsLoading, filters, totalCount,
          timeoutId, requests, nextRequest, arrivals

\* Home: the useState cells, the browser around them (focus, the
\* localStorage flag of the guide, downloads, requests in flight), the log of
\* the page loads and the last handler that ran.
VARIABLES messages, input, isLoading, sessionId, conversationState,
          refreshTrigger, showTemplateModal, showSearchModal,
          showInsightsModal, showGettingStarted, multiPerspectiveMode, theme,
          showShortcuts, mounted, focus, seenGettingStarted, sends, loads,
          nextSend, nextLoad, downloads, visits, lastEvent

\* SyntaxHighlighter: the props still to render and the elements rendered.
VARIABLES highlightCalls, highlighted

\* ChatList: the conversations listed, the showSummary cell and the
\* conversation whose View Summary button was clicked last (a sequence of at
\* most one id).
VARIABLES conversations, showSummary, summaryClick

\* ConversationSummaryView: its conversationId prop ("" while the view is
\* not mounted), its useState cells (selectedSummary is a sequence of at most
\* one summary), the calls of the summary service in flight and their
\* counter.
VARIABLES summaryConversationId, summaries, selectedSummary, loading, error,
          summaryCalls, nextSummaryCall

rendererVars ==
    <<pending, content, pc, html, lines, i, inList, processedLines, result,
      history>>

searchVars ==
    <<searchQuery, searchResults, searchIsLoading, filters, totalCount,
      timeoutId, requests, nextRequest, arrivals>>

modalVars ==
    <<showShortcuts, showTemplateModal, showSearchModal, showInsightsModal,
      showGettingStarted>>

chatVars ==
    <<messages, input, isLoading, sessionId, conversationState,
      refreshTrigger, multiPerspectiveMode, sends, loads, nextSend,
      nextLoad>>

browserVars ==
    <<theme, mounted, focus, seenGettingStarted, downloads, visits>>

homeVars ==
    <<modalVars, chatVars, browserVars, lastEvent>>

highlightVars ==
    <<highlightCalls, highlighted>>

listVars ==
    <<conversations, showSummary, summaryClick>>

summaryVars ==
    <<summaryConversationId, summaries, selectedSummary, loading, error,
      summaryCalls, nextSummaryCall>>

sidebarVars ==
    <<listVars, summaryVars>>

vars ==
    <<rendererVars, searchVars, homeVars, highlightVars, sidebarVars>>

\* ---------------------------------------------------------------------
\* Literal markup of the replacement strings
\* ---------------------------------------------------------------------

\* PreOpen: the literal <pre class="bg-gray-800 text-green-400 p-3 rounded-lg my-2 overflow-x-auto"><code> (line 19, text before $1)
PreOpen ==
    <<"<", "p", "r", "e", " ", "c", "l", "a", "s", "s", "=", "\"", "b", "g",
    "-", "g", "r", "a", "y", "-", "8", "0", "0", " ", "t", "e", "x", "t", "-",
    "g", "r", "e", "e", "n", "-", "4", "0", "0", " ", "p", "-", "3", " ", "r",
    "o", "u", "n", "d", "e", "d", "-", "l", "g", " ", "m", "y", "-", "2", " ",
    "o", "v", "e", "r", "f", "l", "o", "w", "-", "x", "-", "a", "u", "t", "o",
    "\"", ">", "<", "c", "o", "d", "e", ">">>

\* PreClose: the literal </code></pre> (line 19, text after $1)
PreClose ==
    <<"<", "/", "c", "o", "d", "e", ">", "<", "/", "p", "r", "e", ">">>

\* CodeOpen: the literal <code class="bg-gray-200 dark:bg-slate-800 text-blue-800 dark:text-yellow-300 px-1 py-0.5 rounded text-sm"> (line 25, text before $1)
CodeOpen ==
    <<"<", "c", "o", "d", "e", " ", "c", "l", "a", "s", "s", "=", "\"", "b",
    "g", "-", "g", "r", "a", "y", "-", "2", "0", "0", " ", "d", "a", "r", "k",
    ":", "b", "g", "-", "s", "l", "a", "t", "e", "-", "8", "0", "0", " ", "t",
    "e", "x", "t", "-", "b", "l", "u", "e", "-", "8", "0", "0", " ", "d", "a",
    "r", "k", ":", "t", "e", "x", "t", "-", "y", "e", "l", "l", "o", "w", "-",
    "3", "0", "0", " ", "p", "x", "-", "1", " ", "p", "y", "-", "0", ".", "5",
    " ", "r", "o", "u", "n", "d", "e", "d", " ", "t", "e", "x", "t", "-", "s",
    "m", "\"", ">">>

\* CodeClose: the literal </code> (line 25, text after $1)
CodeClose ==
    <<"<", "/", "c", "o", "d", "e", ">">>

\* StrongOpen: the literal <strong class="font-bold"> (lines 31 and 35, text before $1)
StrongOpen ==
    <<"<", "s", "t", "r", "o", "n", "g", " ", "c", "l", "a", "s", "s", "=",
    "\"", "f", "o", "n", "t", "-", "b", "o", "l", "d", "\"", ">">>

\* StrongClose: the literal </strong> (lines 31 and 35, text after $1)
StrongClose ==
    <<"<", "/", "s", "t", "r", "o", "n", "g", ">">>

\* EmOpen: the literal <em class="italic"> (lines 39 and 40, text before $1)
EmOpen ==
    <<"<", "e", "m", " ", "c", "l", "a", "s", "s", "=", "\"", "i", "t", "a",
    "l", "i", "c", "\"", ">">>

\* EmClose: the literal </em> (lines 39 and 40, text after $1)
EmClose ==
    <<"<", "/", "e", "m", ">">>

\* AnchorOpen: the literal <a href=" (line 45, text before $2)
AnchorOpen ==
    <<"<", "a", " ", "h", "r", "e", "f", "=", "\"">>

\* AnchorMid: the literal " target="_blank" rel="noopener noreferrer" class="text-blue-600 dark:text-yellow-400 underline hover:text-blue-800 dark:hover:text-yellow-200"> (line 45, text between $2 and $1)
AnchorMid ==
    <<"\"", " ", "t", "a", "r", "g", "e", "t", "=", "\"", "_", "b", "l", "a",
    "n", "k", "\"", " ", "r", "e", "l", "=", "\"", "n", "o", "o", "p", "e",
    "n", "e", "r", " ", "n", "o", "r", "e", "f", "e", "r", "r", "e", "r",
    "\"", " ", "c", "l", "a", "s", "s", "=", "\"", "t", "e", "x", "t", "-",
    "b", "l", "u", "e", "-", "6", "0", "0", " ", "d", "a", "r", "k", ":", "t",
    "e", "x", "t", "-", "y", "e", "l", "l", "o", "w", "-", "4", "0", "0", " ",
    "u", "n", "d", "e", "r", "l", "i", "n", "e", " ", "h", "o", "v", "e", "r",
    ":", "t", "e", "x", "t", "-", "b", "l", "u", "e", "-", "8", "0", "0", " ",
    "d", "a", "r", "k", ":", "h", "o", "v", "e", "r", ":", "t", "e", "x", "t",
    "-", "y", "e", "l", "l", "o", "w", "-", "2", "0", "0", "\"", ">">>

\* AnchorClose: the literal </a> (line 45, text after $1)
AnchorClose ==
    <<"<", "/", "a", ">">>

\* Br: the literal <br /> (lines 49, 52 and 82)
Br ==
    <<"<", "b", "r", " ", "/", ">">>

\* UlOpen: the literal <ul class="list-disc list-inside my-2 space-y-1"> (line 61)
UlOpen ==
    <<"<", "u", "l", " ", "c", "l", "a", "s", "s", "=", "\"", "l", "i", "s",
    "t", "-", "d", "i", "s", "c", " ", "l", "i", "s", "t", "-", "i", "n", "s",
    "i", "d", "e", " ", "m", "y", "-", "2", " ", "s", "p", "a", "c", "e", "-",
    "y", "-", "1", "\"", ">">>

\* UlClose: the literal </ul> (lines 69 and 79)
UlClose ==
    <<"<", "/", "u", "l", ">">>

\* LiOpen: the literal <li class="ml-4"> (line 66, text before ${listItem})
LiOpen ==
    <<"<", "l", "i", " ", "c", "l", "a", "s", "s", "=", "\"", "m", "l", "-",
    "4", "\"", ">">>

\* LiClose: the literal </li> (line 66, text after ${listItem})
LiClose ==
    <<"<", "/", "l", "i", ">">>

\* ---------------------------------------------------------------------
\* String primitives
\* ---------------------------------------------------------------------

\* Characters matched by \s and removed by String.prototype.trim.
Whitespace ==
    {" ", "\t", "\n", "\r"}

Min(S) ==
    CHOOSE x \in S : \A y \in S : x <= y

Max(S) ==
    CHOOSE x \in S : \A y \in S : x >= y

\* The literal d occurs in s starting at index p.
OccursAt(s, p, d) ==
    /\ p >= 1
    /\ p + Len(d) - 1 <= Len(s)
    /\ \A k \in 1..Len(d) : s[p + k - 1] = d[k]

\* Index of the last character of the maximal run of characters outside
\* excl that starts at p (p - 1 when the run is empty): a greedy [^...]*.
RunEnd(s, p, excl) ==
    LET stops == {q \in p..Len(s) : s[q] \in excl}
    IN  IF stops = {} THEN Len(s) ELSE Min(stops) - 1

\* A match of  open ([^excl]+) close  anchored at p: the index of its last
\* character, or 0 when the pattern does not match at p.  The greedy run ends
\* at the first excluded character and every closing delimiter starts with an
\* excluded character, so backtracking cannot produce another match.
MatchEnd(s, p, open, excl, close) ==
    IF OccursAt(s, p, open)
    THEN LET b == p + Len(open)
             e == RunEnd(s, b, excl)
         IN  IF e >= b /\ OccursAt(s, e + 1, close)
             THEN e + Len(close)
             ELSE 0
    ELSE 0

\* Start of the leftmost match at or after from (0 when there is none).
NextMatch(s, from, open, excl, close) ==
    LET starts == {p \in from..Len(s) : MatchEnd(s, p, open, excl, close) # 0}
    IN  IF starts = {} THEN 0 ELSE Min(starts)

RECURSIVE ReplaceFrom(_, _, _, _, _, _, _)
\* s.replace(/open([^excl]+)close/g, before + "$1" + after), scanning from
\* index from: every non-overlapping match, leftmost first.
ReplaceFrom(s, from, open, excl, close, before, after) ==
    LET p == NextMatch(s, from, open, excl, close)
    IN  IF p = 0
        THEN SubSeq(s, from, Len(s))
        ELSE LET e == MatchEnd(s, p, open, excl, close)
             IN  SubSeq(s, from, p - 1)
                 \o before
                 \o SubSeq(s, p + Len(open), e - Len(close))
                 \o after
                 \o ReplaceFrom(s, e + 1, open, excl, close, before, after)

ReplaceSpans(s, open, excl, close, before, after) ==
    ReplaceFrom(s, 1, open, excl, close, before, after)

\* ---------------------------------------------------------------------
\* The substitution stages, in source order
\* ---------------------------------------------------------------------

\* The backtick character.  A TLA+ string literal cannot contain it, so
\* this atom stands for it in every sequence of characters.
Backtick ==
    "BACKTICK"

Fence ==
    <<Backtick, Backtick, Backtick>>

Tick ==
    <<Backtick>>

\* The two code passes in the wrong order: inline code resolved before
\* fenced code.
CodeBlocksAfterInline(s) ==
    ReplaceSpans(ReplaceSpans(s, Tick, {Backtick}, Tick, CodeOpen, CodeClose),
                 Fence, {Backtick}, Fence, PreOpen, PreClose)

\* html.replace(/(3 backticks)([^(backtick)]+)(3 backticks)/g, '<pre ...><code>$1</code></pre>')
CodeBlocks(s) ==
    ReplaceSpans(s, Fence, {Backtick}, Fence, PreOpen, PreClose)

\* The inline-code pass left out.
InlineCodeMissing(s) ==
    s

\* html.replace(/(backtick)([^(backtick)]+)(backtick)/g, '<code class="...">$1</code>')
InlineCode(s) ==
    ReplaceSpans(s, Tick, {Backtick}, Tick, CodeOpen, CodeClose)

\* The two asterisk passes in the wrong order: italic resolved before bold.
BoldStarAfterItalic(s) ==
    ReplaceSpans(ReplaceSpans(s, <<"*">>, {"*"}, <<"*">>, EmOpen, EmClose),
                 <<"*", "*">>, {"*"}, <<"*", "*">>, StrongOpen, StrongClose)

\* html.replace(/\*\*([^*]+)\*\*/g, '<strong class="font-bold">$1</strong>')
BoldStar(s) ==
    ReplaceSpans(s, <<"*", "*">>, {"*"}, <<"*", "*">>, StrongOpen, StrongClose)

\* html.replace(/__([^_]+)__/g, '<strong class="font-bold">$1</strong>')
BoldUnderscore(s) ==
    ReplaceSpans(s, <<"_", "_">>, {"_"}, <<"_", "_">>, StrongOpen, StrongClose)

\* html.replace(/\*([^*]+)\*/g, '<em class="italic">$1</em>')
ItalicStar(s) ==
    ReplaceSpans(s, <<"*">>, {"*"}, <<"*">>, EmOpen, EmClose)

\* html.replace(/_([^_]+)_/g, '<em class="italic">$1</em>')
ItalicUnderscore(s) ==
    ReplaceSpans(s, <<"_">>, {"_"}, <<"_">>, EmOpen, EmClose)

\* A match of /\[([^\]]+)\]\(([^)]+)\)/ anchored at p: the record of the
\* label and url bounds and the last index, or last = 0 when there is none.
LinkAt(s, p) ==
    LET lb == p + 1
        le == RunEnd(s, lb, {"]"})
        ub == le + 3
        ue == RunEnd(s, ub, {")"})
    IN  IF /\ OccursAt(s, p, <<"[">>)
           /\ le >= lb
           /\ OccursAt(s, le + 1, <<"]", "(">>)
           /\ ue >= ub
           /\ OccursAt(s, ue + 1, <<")">>)
        THEN [lb |-> lb, le |-> le, ub |-> ub, ue |-> ue, last |-> ue + 1]
        ELSE [lb |-> 0, le |-> 0, ub |-> 0, ue |-> 0, last |-> 0]

NextLink(s, from) ==
    LET starts == {p \in from..Len(s) : LinkAt(s, p).last # 0}
    IN  IF starts = {} THEN 0 ELSE Min(starts)

RECURSIVE LinksFrom(_, _)
LinksFrom(s, from) ==
    LET p == NextLink(s, from)
    IN  IF p = 0
        THEN SubSeq(s, from, Len(s))
        ELSE LET m == LinkAt(s, p)
             IN  SubSeq(s, from, p - 1)
                 \o AnchorOpen \o SubSeq(s, m.ub, m.ue)
                 \o AnchorMid \o SubSeq(s, m.lb, m.le)
                 \o AnchorClose
                 \o LinksFrom(s, m.last + 1)

\* html.replace(/\[([^\]]+)\]\(([^)]+)\)/g, '<a href="$2" ...>$1</a>')
Links(s) ==
    LinksFrom(s, 1)

RECURSIVE LineBreaksFrom(_, _)
LineBreaksFrom(s, from) ==
    LET nls == {p \in from..Len(s) : s[p] = "\n"}
    IN  IF nls = {}
        THEN SubSeq(s, from, Len(s))
        ELSE SubSeq(s, from, Min(nls) - 1) \o Br
             \o LineBreaksFrom(s, Min(nls) + 1)

\* The replacement without the g flag: only the first newline is replaced.
LineBreaksFirstOnly(s) ==
    LET nls == {p \in 1..Len(s) : s[p] = "\n"}
    IN  IF nls = {}
        THEN s
        ELSE SubSeq(s, 1, Min(nls) - 1) \o Br \o SubSeq(s, Min(nls) + 1, Len(s))

\* html.replace(/\n/g, "<br />")
LineBreaks(s) ==
    LineBreaksFrom(s, 1)

RECURSIVE SplitFrom(_, _)
SplitFrom(s, from) ==
    LET seps == {p \in from..Len(s) : OccursAt(s, p, Br)}
    IN  IF seps = {}
        THEN <<SubSeq(s, from, Len(s))>>
        ELSE <<SubSeq(s, from, Min(seps) - 1)>>
             \o SplitFrom(s, Min(seps) + Len(Br))

\* html.split("<br />"): the pieces between the non-overlapping occurrences
\* of the separator, leftmost first; the empty string gives one empty piece.
Split(s) ==
    SplitFrom(s, 1)

\* lines[i].trim()
Trim(s) ==
    LET keep == {p \in 1..Len(s) : s[p] \notin Whitespace}
    IN  IF keep = {} THEN <<>> ELSE SubSeq(s, Min(keep), Max(keep))

\* line.match(/^[-*]\s+/)
IsListLine(line) ==
    /\ Len(line) >= 2
    /\ line[1] \in {"-", "*"}
    /\ line[2] \in Whitespace

\* line.replace(/^[-*]\s+/, "")
StripMarker(line) ==
    LET rest == {p \in 2..Len(line) : line[p] \notin Whitespace}
    IN  IF rest = {} THEN <<>> ELSE SubSeq(line, Min(rest), Len(line))

\* The template literal <li class="ml-4">${listItem}</li>
ListItem(line) ==
    LiOpen \o StripMarker(line) \o LiClose

RECURSIVE Join(_)
\* processedLines.join("<br />")
Join(segs) ==
    IF segs = <<>> THEN <<>>
    ELSE IF Len(segs) = 1 THEN segs[1]
    ELSE segs[1] \o Br \o Join(Tail(segs))

\* The loop body without the test if (line): a blank line is pushed too.
LoopBodyKeepBlank(line, open, out) ==
    IF IsListLine(line)
    THEN [inList |-> TRUE,
          out |-> (IF open THEN out ELSE Append(out, UlOpen))
                  \o <<ListItem(line)>>]
    ELSE [inList |-> FALSE,
          out |-> (IF open THEN Append(out, UlClose) ELSE out) \o <<line>>]

\* One iteration of the for loop: what the body pushes for the trimmed line
\* and the value it leaves in inList.
LoopBody(line, open, out) ==
    IF IsListLine(line)
    THEN [inList |-> TRUE,
          out |-> (IF open THEN out ELSE Append(out, UlOpen))
                  \o <<ListItem(line)>>]
    ELSE [inList |-> FALSE,
          out |-> (IF open THEN Append(out, UlClose) ELSE out)
                  \o (IF line # <<>> THEN <<line>> ELSE <<>>)]

\* The loop without the closing step after it: a trailing list stays open.
CloseTrailingNever(open, out) ==
    out

\* The closing step without its guard: a closing tag is always pushed.
CloseTrailingAlways(open, out) ==
    Append(out, UlClose)

\* if (inList) processedLines.push("</ul>")
CloseTrailing(open, out) ==
    IF open THEN Append(out, UlClose) ELSE out

RECURSIVE LoopFrom(_, _, _, _)
LoopFrom(ls, k, open, out) ==
    IF k > Len(ls) THEN CloseTrailing(open, out)
    ELSE LET r == LoopBody(Trim(ls[k]), open, out)
         IN  LoopFrom(ls, k + 1, r.inList, r.out)

\* The inline stages composed in source order (lines 14-49).
Inline(text) ==
    LineBreaks(Links(ItalicUnderscore(ItalicStar(
        BoldUnderscore(BoldStar(InlineCode(CodeBlocks(text))))))))

\* The whole function as one expression: the value a call returns.
renderMarkdown(text) ==
    Join(LoopFrom(Split(Inline(text)), 1, FALSE, <<>>))

\* ---------------------------------------------------------------------
\* Inputs
\* ---------------------------------------------------------------------

MaxLen == 3
MaxText == 3
MaxLines == 4
MaxFrags == 3
MaxCalls == 3

SeqsUpTo(S, n) ==
    UNION {[1..k -> S] : k \in 0..n}

NonEmptySeqsUpTo(S, n) ==
    UNION {[1..k -> S] : k \in 1..n}

RECURSIVE Concat(_)
Concat(parts) ==
    IF parts = <<>> THEN <<>> ELSE Head(parts) \o Concat(Tail(parts))

RECURSIVE JoinNl(_)
JoinNl(ls) ==
    IF ls = <<>> THEN <<>>
    ELSE IF Len(ls) = 1 THEN ls[1]
    ELSE ls[1] \o <<"\n">> \o JoinNl(Tail(ls))

\* Every string of at most MaxLen characters over the Markdown-significant
\* characters, a letter, a blank and a newline.
Sigma ==
    {"a", " ", "\n", "-", "*", "_", Backtick, "[", "]", "(", ")"}

GeneralInputs ==
    SeqsUpTo(Sigma, MaxLen)

\* Texts made of up to MaxLines lines.
LineSet ==
    { <<>>,
      <<"a">>,
      <<"b", " ">>,
      <<"-", " ", "a">>,
      <<" ", "-", " ", " ", "c">>,
      <<"*", " ", "b">>,
      <<"-", "a">>,
      <<"-", " ">> }

LineInputs ==
    {JoinNl(ls) : ls \in NonEmptySeqsUpTo(LineSet, MaxLines)}

\* Plain text and literal markup, piece by piece.
FragSet ==
    { <<"a">>, <<" ">>, <<"\n">>, <<"-">>, <<"\"">>,
      <<"<", "b", ">", "x", "<", "/", "b", ">">>,
      <<"<", "b", "r", " ", "/", ">">> }

FragInputs ==
    {Concat(fs) : fs \in SeqsUpTo(FragSet, MaxFrags)}

\* Delimited spans: bold, link, fenced code and inline code.
TextSigma ==
    {"a", " ", "-", "\n", Backtick}

Texts ==
    NonEmptySeqsUpTo(TextSigma, MaxText)

Stars ==
    <<"*", "*">>

Unders ==
    <<"_", "_">>

BoldInputs ==
    {Stars \o t \o Stars : t \in Texts} \cup {Unders \o t \o Unders : t \in Texts}

And ==
    <<" ", "a", "n", "d", " ">>

BoldItalicInputs ==
    {Stars \o b \o Stars \o And \o <<"*">> \o it \o <<"*">> :
        b \in {<<"b">>, <<"b", " ", "c">>}, it \in {<<"i">>, <<"i", "-", "j">>}}

UrlSigma ==
    {"h", "/", ".", "_", "*"}

Urls ==
    NonEmptySeqsUpTo(UrlSigma, MaxText)

Labels ==
    {<<"g", "o">>, <<"a", " ", "b">>}

LinkOf(label, url) ==
    <<"[">> \o label \o <<"]", "(">> \o url \o <<")">>

LinkInputs ==
    {LinkOf(l, u) : l \in Labels, u \in Urls}

BodySigma ==
    {"a", " ", "\n", "-", "*"}

Bodies ==
    NonEmptySeqsUpTo(BodySigma, MaxText)

FencedOf(body) ==
    Fence \o body \o Fence

FencedInputs ==
    {FencedOf(b) : b \in Bodies}

TwoFencedInputs ==
    {FencedOf(b1) \o sep \o FencedOf(b2) :
        b1 \in {<<"a">>, <<"a", "\n">>}, b2 \in {<<"b">>, <<"-", " ", "b">>},
        sep \in {<<>>, <<" ">>, <<"x">>, <<"\n">>}}

InlineBodies ==
    NonEmptySeqsUpTo({"a", " ", "-", "*"}, MaxText)

InlineOf(body) ==
    Tick \o body \o Tick

InlineCodeInputs ==
    {InlineOf(b) : b \in InlineBodies}

\* Ambiguous input named by the failure semantics: an unbalanced
\* delimiter, a link whose url contains ')', a fence with a lone backtick.
UrlWithParen ==
    <<"[", "a", "]", "(", "b", ")", "c", ")">>

FenceWithTick ==
    Fence \o <<"a", Backtick, "b">> \o Fence

Unbalanced ==
    <<"*", "*", "a", "*">>

AmbiguousInputs ==
    {UrlWithParen, FenceWithTick, Unbalanced}

Inputs ==
    GeneralInputs \cup LineInputs \cup FragInputs \cup BoldInputs
    \cup BoldItalicInputs \cup LinkInputs \cup FencedInputs
    \cup TwoFencedInputs \cup InlineCodeInputs \cup AmbiguousInputs

\* Contents whose rendering is rendered again.
DoubleTick ==
    <<Backtick, Backtick, "a", Backtick, Backtick>>

TwoLinks ==
    LinkOf(<<"a">>, <<"h">>) \o LinkOf(<<"a">>, <<"h">>)

TwiceInputs ==
    GeneralInputs \cup {DoubleTick, TwoLinks}

\* The contents rendered one after another by the same component.
CallInputs ==
    { <<"b">>,
      <<"-", " ", "a">>,
      <<"-", " ", "a", "\n", "b">>,
      <<>> }

\* ---------------------------------------------------------------------
\* The components as constructed
\* ---------------------------------------------------------------------

\* JavaScript null and undefined.
Null == "null"

Undefined == "undefined"

\* The keys of SearchFilters.
FilterKeys ==
    {"stage", "date_from", "date_to"}

\* useState<SearchFilters>({}): no key holds a value.
NoFilters ==
    [k \in FilterKeys |-> Undefined]

\* ConversationSearch after its useState calls; no timer, no request.
SearchConstructed ==
    /\ searchQuery = <<>>
    /\ searchResults = <<>>
    /\ searchIsLoading = FALSE
    /\ filters = NoFilters
    /\ totalCount = 0
    /\ timeoutId = <<>>
    /\ requests = {}
    /\ nextRequest = 1
    /\ arrivals = <<>>

\* Home after its useState calls, before its effects have run, in a browser
\* whose localStorage has never been written.
HomeConstructed ==
    /\ messages = <<>>
    /\ input = <<>>
    /\ isLoading = FALSE
    /\ sessionId = ""
    /\ conversationState = "initial"
    /\ refreshTrigger = 0
    /\ showTemplateModal = FALSE
    /\ showSearchModal = FALSE
    /\ showInsightsModal = FALSE
    /\ showGettingStarted = FALSE
    /\ multiPerspectiveMode = FALSE
    /\ theme = "light"
    /\ showShortcuts = FALSE
    /\ mounted = FALSE
    /\ focus = "body"
    /\ seenGettingStarted = Null
    /\ sends = {}
    /\ loads = {}
    /\ nextSend = 1
    /\ nextLoad = 1
    /\ downloads = <<>>
    /\ visits = <<>>
    /\ lastEvent = [name |-> "none", detail |-> <<>>]

\* No SyntaxHighlighter is rendered.
HighlightConstructed ==
    /\ highlightCalls = <<>>
    /\ highlighted = <<>>

\* ChatList after its useState calls, before fetchConversations has been
\* answered.
ChatListConstructed ==
    /\ conversations = {}
    /\ showSummary = FALSE
    /\ summaryClick = <<>>

\* ConversationSummaryView before it is mounted; its cells hold what useState
\* will give them.
SummaryViewConstructed ==
    /\ summaryConversationId = ""
    /\ summaries = <<>>
    /\ selectedSummary = <<>>
    /\ loading = FALSE
    /\ error = Null
    /\ summaryCalls = {}
    /\ nextSummaryCall = 1

SidebarConstructed ==
    /\ ChatListConstructed
    /\ SummaryViewConstructed

\* ---------------------------------------------------------------------
\* The state machine: one call of renderMarkdown per pending content
\* ---------------------------------------------------------------------

Idle ==
    /\ content = <<>>
    /\ pc = "idle"
    /\ html = <<>>
    /\ lines = <<>>
    /\ i = 0
    /\ inList = FALSE
    /\ processedLines = <<>>
    /\ result = <<>>
    /\ history = <<>>

\* The component is mounted with one content.
Init ==
    /\ pending \in {<<c>> : c \in Inputs}
    /\ Idle
    /\ SearchConstructed
    /\ HomeConstructed
    /\ SidebarConstructed
    /\ HighlightConstructed

\* The component is rendered again each time its content changes.
InitCalls ==
    /\ pending \in NonEmptySeqsUpTo(CallInputs, MaxCalls)
    /\ Idle
    /\ SearchConstructed
    /\ HomeConstructed
    /\ SidebarConstructed
    /\ HighlightConstructed

\* The component is given a content and then the markup it rendered for
\* that content.
InitTwice ==
    /\ pending \in {<<x, renderMarkdown(x)>> : x \in TwiceInputs}
    /\ Idle
    /\ SearchConstructed
    /\ HomeConstructed
    /\ SidebarConstructed
    /\ HighlightConstructed

\* renderMarkdown(content) is called: let html = text.
Invoke ==
    /\ pc = "idle"
    /\ pending # <<>>
    /\ content' = Head(pending)
    /\ pending' = Tail(pending)
    /\ html' = Head(pending)
    /\ pc' = "codeBlocks"
    /\ UNCHANGED <<lines, i, inList, processedLines, result, history>>
    /\ UNCHANGED <<searchVars, homeVars, highlightVars, sidebarVars>>

Stage(at, next, out) ==
    /\ pc = at
    /\ html' = out
    /\ pc' = next
    /\ UNCHANGED <<pending, content, lines, i, inList, processedLines,
                   result, history>>
    /\ UNCHANGED <<searchVars, homeVars, highlightVars, sidebarVars>>

CodeBlocksStep ==
    Stage("codeBlocks", "inlineCode", CodeBlocks(html))

InlineCodeStep ==
    Stage("inlineCode", "boldStar", InlineCode(html))

BoldStarStep ==
    Stage("boldStar", "boldUnderscore", BoldStar(html))

BoldUnderscoreStep ==
    Stage("boldUnderscore", "italicStar", BoldUnderscore(html))

ItalicStarStep ==
    Stage("italicStar", "italicUnderscore", ItalicStar(html))

ItalicUnderscoreStep ==
    Stage("italicUnderscore", "links", ItalicUnderscore(html))

LinksStep ==
    Stage("links", "lineBreaks", Links(html))

LineBreaksStep ==
    Stage("lineBreaks", "split", LineBreaks(html))

\* inList kept outside the function instead of declared in it: a call starts
\* with the flag the previous call left.
SplitLinesSharedFlag ==
    /\ pc = "split"
    /\ lines' = Split(html)
    /\ processedLines' = <<>>
    /\ i' = 0
    /\ pc' = "loop"
    /\ UNCHANGED <<pending, content, html, inList, result, history>>
    /\ UNCHANGED <<searchVars, homeVars, highlightVars, sidebarVars>>

\* const lines = html.split("<br />"); let inList = false;
\* const processedLines = []; let i = 0
SplitLines ==
    /\ pc = "split"
    /\ lines' = Split(html)
    /\ inList' = FALSE
    /\ processedLines' = <<>>
    /\ i' = 0
    /\ pc' = "loop"
    /\ UNCHANGED <<pending, content, html, result, history>>
    /\ UNCHANGED <<searchVars, homeVars, highlightVars, sidebarVars>>

\* The loop test written with <= : the body also runs for i = lines.length.
LoopTestInclusive(k, ls) ==
    k <= Len(ls)

\* The loop test i < lines.length (i counts from 0 as in the source).
LoopTest(k, ls) ==
    k < Len(ls)

\* One iteration of the for loop.  lines[i] is undefined past the end of the
\* array and calling trim on it raises a TypeError.
LoopStep ==
    /\ pc = "loop"
    /\ LoopTest(i, lines)
    /\ IF i + 1 \in DOMAIN lines
       THEN /\ LET r == LoopBody(Trim(lines[i + 1]), inList, processedLines)
               IN  /\ inList' = r.inList
                   /\ processedLines' = r.out
            /\ i' = i + 1
            /\ pc' = pc
       ELSE /\ pc' = "raised"
            /\ UNCHANGED <<i, inList, processedLines>>
    /\ UNCHANGED <<pending, content, html, lines, result, history>>
    /\ UNCHANGED <<searchVars, homeVars, highlightVars, sidebarVars>>

\* The loop is over: close a trailing list, join and return.
Return ==
    /\ pc = "loop"
    /\ ~LoopTest(i, lines)
    /\ processedLines' = CloseTrailing(inList, processedLines)
    /\ result' = Join(processedLines')
    /\ history' = Append(history, [text |-> content, out |-> result'])
    /\ pc' = "idle"
    /\ UNCHANGED <<pending, content, html, lines, i, inList>>
    /\ UNCHANGED <<searchVars, homeVars, highlightVars, sidebarVars>>

Next ==
    \/ Invoke
    \/ CodeBlocksStep
    \/ InlineCodeStep
    \/ BoldStarStep
    \/ BoldUnderscoreStep
    \/ ItalicStarStep
    \/ ItalicUnderscoreStep
    \/ LinksStep
    \/ LineBreaksStep
    \/ SplitLines
    \/ LoopStep
    \/ Return

Spec ==
    Init /\ [][Next]_vars

\* The same machine rendering a sequence of contents.
SpecCalls ==
    InitCalls /\ [][Next]_vars

\* The same machine rendering a content and then its own output.
SpecTwice ==
    InitTwice /\ [][Next]_vars

\* A call has returned: content is its argument and result its value.
Done ==
    pc = "idle" /\ history # <<>>

\* ---------------------------------------------------------------------
\* Vocabulary of the properties
\* ---------------------------------------------------------------------

\* The literal d occurs somewhere in s.
Contains(s, d) ==
    \E p \in 1..Len(s) : OccursAt(s, p, d)

\* Number of occurrences of the literal d in s.
Count(s, d) ==
    Cardinality({p \in 1..Len(s) : OccursAt(s, p, d)})

StartsWith(s, d) ==
    OccursAt(s, 1, d)

EndsWith(s, d) ==
    OccursAt(s, Len(s) - Len(d) + 1, d)

\* s with every newline replaced by the line-break marker and nothing else
\* changed.
WithBreaks(s) ==
    Concat([k \in 1..Len(s) |-> IF s[k] = "\n" THEN Br ELSE <<s[k]>>])

MarkdownSignificant ==
    {Backtick, "*", "_", "[", "]", "(", ")"}

IsPlainText(s) ==
    \A k \in 1..Len(s) : s[k] \notin MarkdownSignificant

\* The lines of a text: the pieces between newlines, a literal line-break
\* marker in the text counting as a newline.
Pieces(s) ==
    Split(WithBreaks(s))

\* Optional leading whitespace, then - or *, then at least one whitespace
\* character, then text.
IsMarkerLine(l) ==
    \E f \in 1..Len(l) :
        /\ \A k \in 1..(f - 1) : l[k] \in Whitespace
        /\ l[f] \in {"-", "*"}
        /\ f + 1 <= Len(l)
        /\ l[f + 1] \in Whitespace
        /\ \E q \in (f + 2)..Len(l) : l[q] \notin Whitespace

\* The text of a marker line: what follows the marker and its whitespace,
\* up to the last character that is not whitespace.
ItemText(l) ==
    LET f == Min({k \in 1..Len(l) : l[k] \notin Whitespace})
        solid == {q \in (f + 2)..Len(l) : l[q] \notin Whitespace}
    IN  SubSeq(l, Min(solid), Max(solid))

\* l without its leading and trailing whitespace.
Stripped(l) ==
    LET solid == {q \in 1..Len(l) : l[q] \notin Whitespace}
    IN  IF solid = {} THEN <<>> ELSE SubSeq(l, Min(solid), Max(solid))

ItemOf(text) ==
    LiOpen \o text \o LiClose

\* ---------------------------------------------------------------------
\* C1
\* ---------------------------------------------------------------------

\* C1 as stated: a call on plain text (no Markdown-significant character)
\* returns the text with each newline replaced by the line-break marker and
\* nothing else changed, blank lines and whitespace at the ends of a line
\* included.
PlainTextIdentityAnyLine ==
    (Done /\ IsPlainText(content)) => result = WithBreaks(content)

\* A line the list pass hands on untouched: not blank, no whitespace at
\* either end, no list marker in front.
IsCleanLine(l) ==
    /\ l # <<>>
    /\ l[1] \notin Whitespace
    /\ l[Len(l)] \notin Whitespace
    /\ ~IsMarkerLine(l)

\* C1 as amended: a call on plain text in which no line is blank, begins or
\* ends with whitespace, or begins with a list marker followed by whitespace
\* (a literal line-break marker separating lines as a newline does) returns
\* the text with each newline replaced by the line-break marker and nothing
\* else changed.
PlainTextIdentity ==
    ( /\ Done
      /\ IsPlainText(content)
      /\ \A k \in 1..Len(Pieces(content)) : IsCleanLine(Pieces(content)[k]) )
    => result = WithBreaks(content)

PlainTextIdentityWitness ==
    /\ Done
    /\ IsPlainText(content)
    /\ \A k \in 1..Len(Pieces(content)) : IsCleanLine(Pieces(content)[k])
    /\ Count(content, <<"\n">>) >= 2
    /\ result = WithBreaks(content)
    /\ result # content

\* ---------------------------------------------------------------------
\* C2
\* ---------------------------------------------------------------------

IsItemSegment(seg) ==
    StartsWith(seg, LiOpen) /\ EndsWith(seg, LiClose)

Openings(out) ==
    Cardinality({k \in 1..Len(out) : out[k] = UlOpen})

Closings(out) ==
    Cardinality({k \in 1..Len(out) : out[k] = UlClose})

\* What the grouping rule prescribes for line k of ls, stated without a
\* flag: a container opens before the first line of a maximal run of marker
\* lines and closes after its last line; a marker line gives one item, any
\* other line that is not blank is emitted as it is, a blank line gives
\* nothing.
GroupedLine(ls, k) ==
    LET marker(j) == j >= 1 /\ j <= Len(ls) /\ IsMarkerLine(ls[j])
    IN  (IF marker(k) /\ ~marker(k - 1) THEN <<UlOpen>> ELSE <<>>)
        \o (IF marker(k) THEN <<ItemOf(ItemText(ls[k]))>>
            ELSE IF Stripped(ls[k]) # <<>> THEN <<Stripped(ls[k])>>
            ELSE <<>>)
        \o (IF marker(k) /\ ~marker(k + 1) THEN <<UlClose>> ELSE <<>>)

Grouped(ls) ==
    Concat([k \in 1..Len(ls) |-> GroupedLine(ls, k)])

\* C2: over the lines the list pass scans, every maximal run of consecutive
\* list-marker lines is emitted as exactly one container holding one item
\* per line in order, a blank or other line ends the container, a list that
\* runs to the end is closed: while the loop runs the emitted openings
\* exceed the closings by one exactly when inList is set, after the call
\* they are equal in number, only items lie between an opening and its
\* closing, and the emitted segments are those the grouping rule prescribes.
ListGrouping ==
    /\ pc = "loop" =>
          Openings(processedLines) - Closings(processedLines)
              = (IF inList THEN 1 ELSE 0)
    /\ Done =>
          /\ Openings(processedLines) = Closings(processedLines)
          /\ \A k \in 1..Len(processedLines) :
                /\ processedLines[k] = UlOpen =>
                      k < Len(processedLines)
                      /\ IsItemSegment(processedLines[k + 1])
                /\ IsItemSegment(processedLines[k]) =>
                      /\ k > 1
                      /\ k < Len(processedLines)
                      /\ \/ processedLines[k - 1] = UlOpen
                         \/ IsItemSegment(processedLines[k - 1])
                      /\ \/ processedLines[k + 1] = UlClose
                         \/ IsItemSegment(processedLines[k + 1])
                /\ processedLines[k] = UlClose =>
                      k > 1 /\ IsItemSegment(processedLines[k - 1])
          /\ processedLines = Grouped(lines)
          /\ result = Join(Grouped(lines))

ListGroupingWitness ==
    /\ Done
    /\ Openings(processedLines) = 2
    /\ processedLines[Len(processedLines)] = UlClose
    /\ \E k \in 1..(Len(processedLines) - 1) :
          IsItemSegment(processedLines[k])
          /\ IsItemSegment(processedLines[k + 1])
    /\ \E k \in 1..Len(processedLines) :
          /\ processedLines[k] # UlOpen
          /\ processedLines[k] # UlClose
          /\ ~IsItemSegment(processedLines[k])

\* ---------------------------------------------------------------------
\* C3
\* ---------------------------------------------------------------------

\* C3: every line of the input that is optional whitespace, a marker - or *,
\* whitespace and then (plain) text is rendered as a list item holding that
\* text with the marker stripped, also when several such lines follow one
\* another.
MarkerLinesBecomeItems ==
    Done =>
        \A k \in 1..Len(Pieces(content)) :
            LET l == Pieces(content)[k]
            IN  (IsMarkerLine(l) /\ IsPlainText(ItemText(l)))
                    => Contains(result, ItemOf(ItemText(l)))

\* ---------------------------------------------------------------------
\* C4
\* ---------------------------------------------------------------------

StrongOf(t) ==
    StrongOpen \o t \o StrongClose

EmOf(t) ==
    EmOpen \o t \o EmClose

\* The text between the two-character delimiters of a bold input.
BoldText(s) ==
    SubSeq(s, 3, Len(s) - 2)

AnchorOf(label, url) ==
    AnchorOpen \o url \o AnchorMid \o label \o AnchorClose

\* C5: the input [label](url), label without ] and url without ), gives
\* exactly one anchor element whose href is url unchanged and whose text is
\* label, with target="_blank" and rel="noopener noreferrer"; for every such
\* url, underscores and asterisks included.
LinkKeepsUrl ==
    Done =>
        \A l \in Labels, u \in Urls :
            content = LinkOf(l, u) => result = AnchorOf(l, u)

\* ---------------------------------------------------------------------
\* C6
\* ---------------------------------------------------------------------

PreOf(body) ==
    PreOpen \o body \o PreClose

CodeOf(body) ==
    CodeOpen \o body \o CodeClose

SpanOccurs(s, open, excl, close) ==
    \E p \in 1..Len(s) :
        /\ OccursAt(s, p, open)
        /\ \E e \in (p + Len(open))..Len(s) :
              /\ \A k \in (p + Len(open))..e : s[k] \notin excl
              /\ OccursAt(s, e + 1, close)

\* The link pattern matches somewhere in s.
LinkOccurs(s) ==
    \E p \in 1..Len(s) :
        /\ s[p] = "["
        /\ \E e \in (p + 1)..Len(s) :
              /\ \A k \in (p + 1)..e : s[k] # "]"
              /\ OccursAt(s, e + 1, <<"]", "(">>)
              /\ \E f \in (e + 3)..Len(s) :
                    /\ \A k \in (e + 3)..f : s[k] # ")"
                    /\ OccursAt(s, f + 1, <<")">>)

\* The pattern of the stage about to run occurs in html.
PatternOccurs ==
    \/ pc = "codeBlocks" /\ SpanOccurs(html, Fence, {Backtick}, Fence)
    \/ pc = "inlineCode" /\ SpanOccurs(html, Tick, {Backtick}, Tick)
    \/ pc = "boldStar" /\ SpanOccurs(html, Stars, {"*"}, Stars)
    \/ pc = "boldUnderscore" /\ SpanOccurs(html, Unders, {"_"}, Unders)
    \/ pc = "italicStar" /\ SpanOccurs(html, <<"*">>, {"*"}, <<"*">>)
    \/ pc = "italicUnderscore" /\ SpanOccurs(html, <<"_">>, {"_"}, <<"_">>)
    \/ pc = "links" /\ LinkOccurs(html)
    \/ pc = "lineBreaks" /\ Contains(html, <<"\n">>)

StagePcs ==
    {"codeBlocks", "inlineCode", "boldStar", "boldUnderscore", "italicStar",
     "italicUnderscore", "links", "lineBreaks"}

\* How many stages of a call are still to run when control is at p.
StageRank(p) ==
    CASE p = "codeBlocks" -> 10
      [] p = "inlineCode" -> 9
      [] p = "boldStar" -> 8
      [] p = "boldUnderscore" -> 7
      [] p = "italicStar" -> 6
      [] p = "italicUnderscore" -> 5
      [] p = "links" -> 4
      [] p = "lineBreaks" -> 3
      [] p = "split" -> 2
      [] p = "loop" -> 1
      [] OTHER -> 0

\* Work left: the calls still to make, the stages still to run in the
\* current call, the lines still to scan in its loop.
Measure ==
    <<Len(pending), StageRank(pc), IF pc = "loop" THEN Len(lines) - i ELSE 0>>

LexLess(a, b) ==
    \/ a[1] < b[1]
    \/ a[1] = b[1] /\ a[2] < b[2]
    \/ a[1] = b[1] /\ a[2] = b[2] /\ a[3] < b[3]

\* C7: renderMarkdown is total.  No call raises; no call runs for ever,
\* since every step strictly decreases the work left (a triple of naturals
\* ordered lexicographically); a call that has returned has recorded one
\* string for its input; and a stage whose pattern does not occur in the
\* string leaves the string unchanged.
RenderIsTotal ==
    /\ [](pc # "raised")
    /\ [](pc = "loop" => i <= Len(lines))
    /\ [][LexLess(Measure', Measure)]_vars
    /\ [](Done => history[Len(history)] = [text |-> content, out |-> result])
    /\ [][(pc \in StagePcs /\ ~PatternOccurs) => html' = html]_vars

RenderIsTotalWitness ==
    /\ Done
    /\ content \in AmbiguousInputs
    /\ result # <<>>

\* ---------------------------------------------------------------------
\* C8
\* ---------------------------------------------------------------------

\* C8: rendering the empty string returns the empty string.
EmptyInEmptyOut ==
    (Done /\ content = <<>>) => result = <<>>

EmptyInEmptyOutWitness ==
    /\ Done
    /\ content = <<>>
    /\ lines = << <<>> >>
    /\ result = <<>>

\* ---------------------------------------------------------------------
\* C9
\* ---------------------------------------------------------------------

\* C9: two calls with the same input return the same output, whatever was
\* rendered before or between them.
SameInputSameOutput ==
    \A j \in 1..Len(history), k \in 1..Len(history) :
        history[j].text = history[k].text => history[j].out = history[k].out

\* The same input rendered again after a call that ended inside a list and
\* left its flag set.
SameInputSameOutputWitness ==
    /\ Done
    /\ Len(history) >= 3
    /\ history[1].text = history[3].text
    /\ history[1].text # history[2].text
    /\ EndsWith(history[2].out, UlClose)
    /\ ~Contains(history[3].out, UlClose)

\* ---------------------------------------------------------------------
\* C10
\* ---------------------------------------------------------------------

CountChar(s, c) ==
    Cardinality({p \in 1..Len(s) : s[p] = c})

BoldTag ==
    <<"<", "b", ">", "x", "<", "/", "b", ">">>

\* C10: the renderer never escapes.  Every <, > and " of the input appears
\* in the output, and markup text without Markdown-significant characters,
\* such as <b>x</b> or a literal <br />, appears in the output unchanged.
MarkupPassesThrough ==
    Done =>
        /\ \A c \in {"<", ">", "\""} :
              CountChar(result, c) >= CountChar(content, c)
        /\ IsPlainText(content) =>
              \A m \in {BoldTag, Br} :
                  Count(result, m) >= Count(content, m)

\* ---------------------------------------------------------------------
\* C11
\* ---------------------------------------------------------------------

\* C11: idempotence does not hold in general.  There is an input, two
\* backticks, a letter and two backticks, whose rendering is rendered to
\* something else: once both calls have returned, the second call was given
\* the output of the first and its output differs from it.
NotIdempotent ==
    (Done /\ Len(history) = 2 /\ history[1].text = DoubleTick)
        => /\ history[2].text = history[1].out
           /\ history[2].out # history[1].out

NotIdempotentWitness ==
    /\ Done
    /\ Len(history) = 2
    /\ history[1].text = DoubleTick
    /\ history[2].text = history[1].out
    /\ history[2].out # history[1].out
    /\ Count(history[1].out, CodeOpen) = 1
    /\ Count(history[2].out, CodeOpen) = 2

\* ---------------------------------------------------------------------
\* C17
\* ---------------------------------------------------------------------

\* C17: blank lines are dropped and the segments are joined with the
\* line-break marker: the value returned never begins or ends with the marker
\* and never holds two markers in a row.
NoEmptySegments ==
    Done =>
        /\ ~StartsWith(result, Br)
        /\ ~EndsWith(result, Br)
        /\ ~Contains(result, Br \o Br)

\* A text with a leading newline, a blank line inside and a trailing newline
\* has been rendered to something.
NoEmptySegmentsWitness ==
    /\ Done
    /\ StartsWith(content, <<"\n">>)
    /\ EndsWith(content, <<"\n">>)
    /\ Contains(content, <<"\n", "\n">>)
    /\ Contains(result, Br)

\* ---------------------------------------------------------------------
\* ConversationSearch (src/unnamed/part_006)
\* ---------------------------------------------------------------------

\* Search requests issued in one run.
MaxRequests == 2

\* The renderer is idle and the other components are as constructed.
RendererIdle ==
    /\ pending = <<>>
    /\ Idle

\* What the user leaves in the search box: nothing, one letter, one letter
\* between blanks, and two queries long enough to be searched.
QuerySet ==
    { <<>>, <<"a">>, <<" ", "a", " ">>, <<"a", "b">>, <<"c", "d">> }

\* The (key, value) pairs the stage select hands to handleFilterChange; the
\* empty value is its first option.
FilterChanges ==
    { <<"stage", "exploring">>, <<"stage", "">> }

\* The debounce effect run for a render with query q and filters f.  The
\* cleanup of the previous run has cleared the previous timer; the timer
\* started here calls the performSearch of this render, which holds q and f.
DebounceEffect(q, f) ==
    IF Len(Trim(q)) >= 2
    THEN /\ timeoutId' = <<[query |-> q, filters |-> f]>>
         /\ UNCHANGED <<searchResults, totalCount>>
    ELSE /\ timeoutId' = <<>>
         /\ searchResults' = <<>>
         /\ totalCount' = 0

\* onChange of the search input.
setSearchQuery(q) ==
    /\ q # searchQuery
    /\ searchQuery' = q
    /\ DebounceEffect(q, filters)
    /\ UNCHANGED <<searchIsLoading, filters, requests, nextRequest, arrivals>>
    /\ UNCHANGED <<rendererVars, homeVars, highlightVars, sidebarVars>>

\* setFilters(prev => ({...prev, [key]: value || undefined})): always a new
\* object, so the debounce effect runs again.
handleFilterChange(key, value) ==
    /\ filters' = [filters EXCEPT ![key] = IF value = "" THEN Undefined
                                           ELSE value]
    /\ DebounceEffect(searchQuery, filters')
    /\ UNCHANGED <<searchQuery, searchIsLoading, requests, nextRequest,
                   arrivals>>
    /\ UNCHANGED <<rendererVars, homeVars, highlightVars, sidebarVars>>

\* setFilters({})
clearFilters ==
    /\ filters' = NoFilters
    /\ DebounceEffect(searchQuery, filters')
    /\ UNCHANGED <<searchQuery, searchIsLoading, requests, nextRequest,
                   arrivals>>
    /\ UNCHANGED <<rendererVars, homeVars, highlightVars, sidebarVars>>

\* The 300 ms timer fires: performSearch up to the await of fetch.
performSearch ==
    /\ timeoutId # <<>>
    /\ nextRequest <= MaxRequests
    /\ timeoutId' = <<>>
    /\ IF Trim(timeoutId[1].query) = <<>>
       THEN UNCHANGED <<searchIsLoading, requests, nextRequest>>
       ELSE /\ searchIsLoading' = TRUE
            /\ requests' = requests \cup
                    {[id |-> nextRequest, query |-> timeoutId[1].query,
                      filters |-> timeoutId[1].filters, limit |-> 20]}
            /\ nextRequest' = nextRequest + 1
    /\ UNCHANGED <<searchQuery, searchResults, filters, totalCount, arrivals>>
    /\ UNCHANGED <<rendererVars, homeVars, highlightVars, sidebarVars>>

\* A conversation found for query q.
Hit(q) ==
    [id |-> "c1", matching_snippet |-> q]

\* The SearchResponse bodies the backend may answer a request with: no
\* conversation, or one whose snippet matches the query of the request.
SearchResponses(r) ==
    { [results |-> rs, total_count |-> Len(rs), query |-> r.query,
       filters_applied |-> r.filters] : rs \in {<<>>, <<Hit(r.query)>>} }

\* A response that is put on display only when it answers the query and the
\* filters now in the box.
SearchResolvesCurrentOnly(r, data) ==
    /\ r \in requests
    /\ requests' = requests \ {r}
    /\ IF r.query = searchQuery /\ r.filters = filters
       THEN /\ searchResults' = data.results
            /\ totalCount' = data.total_count
       ELSE UNCHANGED <<searchResults, totalCount>>
    /\ searchIsLoading' = FALSE
    /\ arrivals' = Append(arrivals,
            [id |-> r.id, query |-> r.query, ok |-> TRUE,
             results |-> data.results, total_count |-> data.total_count])
    /\ UNCHANGED <<searchQuery, filters, timeoutId, nextRequest>>
    /\ UNCHANGED <<rendererVars, homeVars, highlightVars, sidebarVars>>

\* performSearch after the await: the body was decoded.
SearchResolves(r, data) ==
    /\ r \in requests
    /\ requests' = requests \ {r}
    /\ searchResults' = data.results
    /\ totalCount' = data.total_count
    /\ searchIsLoading' = FALSE
    /\ arrivals' = Append(arrivals,
            [id |-> r.id, query |-> r.query, ok |-> TRUE,
             results |-> data.results, total_count |-> data.total_count])
    /\ UNCHANGED <<searchQuery, filters, timeoutId, nextRequest>>
    /\ UNCHANGED <<rendererVars, homeVars, highlightVars, sidebarVars>>

\* performSearch after the await: fetch or json() rejected (the catch).
SearchRejects(r) ==
    /\ r \in requests
    /\ requests' = requests \ {r}
    /\ searchResults' = <<>>
    /\ totalCount' = 0
    /\ searchIsLoading' = FALSE
    /\ arrivals' = Append(arrivals,
            [id |-> r.id, query |-> r.query, ok |-> FALSE,
             results |-> <<>>, total_count |-> 0])
    /\ UNCHANGED <<searchQuery, filters, timeoutId, nextRequest>>
    /\ UNCHANGED <<rendererVars, homeVars, highlightVars, sidebarVars>>

InitSearch ==
    /\ RendererIdle
    /\ SearchConstructed
    /\ HomeConstructed
    /\ SidebarConstructed
    /\ HighlightConstructed

NextSearch ==
    \/ \E q \in QuerySet : setSearchQuery(q)
    \/ \E c \in FilterChanges : handleFilterChange(c[1], c[2])
    \/ clearFilters
    \/ performSearch
    \/ \E r \in requests : \E data \in SearchResponses(r) :
            SearchResolves(r, data)
    \/ \E r \in requests : SearchRejects(r)

SpecSearch ==
    InitSearch /\ [][NextSearch]_vars

\* ---------------------------------------------------------------------
\* C12
\* ---------------------------------------------------------------------

\* C12: search responses are applied in the order they arrive, with no
\* regard for the query now in the box: the step that completes a request
\* puts the outcome of that request on display (its results and total
\* count, or nothing when it failed).  An older response that arrives last
\* therefore overwrites a newer one.
ArrivalOrderApplied ==
    [][\A r \in requests \ requests' :
          /\ Len(arrivals') = Len(arrivals) + 1
          /\ arrivals'[Len(arrivals')].id = r.id
          /\ arrivals'[Len(arrivals')].query = r.query
          /\ searchResults' = arrivals'[Len(arrivals')].results
          /\ totalCount' = arrivals'[Len(arrivals')].total_count]_vars

\* Every request has completed, the request for the current query was
\* answered first and the older request, for another query, last; what is
\* displayed is the hit and the count of the older query.
StaleResultsShown ==
    /\ requests = {}
    /\ timeoutId = <<>>
    /\ ~searchIsLoading
    /\ Len(arrivals) = 2
    /\ arrivals[1].ok
    /\ arrivals[2].ok
    /\ arrivals[2].id < arrivals[1].id
    /\ arrivals[1].query = searchQuery
    /\ arrivals[2].query # searchQuery
    /\ searchResults = <<Hit(arrivals[2].query)>>
    /\ searchResults # <<Hit(searchQuery)>>
    /\ totalCount = 1

\* ---------------------------------------------------------------------
\* Home (src/unnamed/part_002): vocabulary
\* ---------------------------------------------------------------------

\* Messages sent in one run.
MaxSends == 1

\* Messages sent in one run in which suggestion buttons are clicked.
MaxSuggestionSends == 3

\* Conversations loaded in one run.
MaxLoads == 1

\* Page loads in one run.
MaxVisits == 2

\* Perspectives in one multi-perspective reply.
MaxPerspectives == 2

\* Files downloaded in one run.
MaxExports == 1

outsideHome ==
    <<rendererVars, searchVars, highlightVars, sidebarVars>>

\* What the user leaves in the message input: nothing or a text.
InputTexts ==
    { <<>>, <<"h", "i">> }

\* The text of a suggestion button.
SuggestionText ==
    <<"g", "o">>

\* The text of a single reply.
ReplyText ==
    <<"o", "k">>

\* What a template literal or the DOM shows for a content that is undefined.
UndefinedText ==
    <<Undefined>>

\* The content of the message appended by the catch of sendMessage.
ErrorText ==
    <<"S", "o", "r", "r", "y", ",", " ", "I", " ", "e", "n", "c", "o", "u",
      "n", "t", "e", "r", "e", "d", " ", "a", "n", " ", "e", "r", "r", "o",
      "r", ".", " ", "P", "l", "e", "a", "s", "e", " ", "t", "r", "y", " ",
      "a", "g", "a", "i", "n", ".">>

ChatEndpoint == "http://localhost:8000/api/chat"

MultiPerspectiveEndpoint == "http://localhost:8000/api/chat/multi-perspective"

\* interface Message, without its timestamp.  A field that is undefined holds
\* Undefined, and suggestions that are undefined or empty are <<>>.
Message(role, text, suggestions, persona, provider) ==
    [role |-> role, content |-> text, suggestions |-> suggestions,
     persona |-> persona, provider |-> provider]

UserMessage(text) ==
    Message("user", text, <<>>, Undefined, Undefined)

ErrorMessage ==
    Message("assistant", ErrorText, <<>>, Undefined, Undefined)

\* The perspectives a multi-perspective reply is made of.
PerspectiveSet ==
    { [message |-> <<"p", "1">>, persona |-> "analyst", provider |-> "openai"],
      [message |-> <<"p", "2">>, persona |-> "critic", provider |-> "gemini"] }

\* The arrays of perspectives a reply may carry: each persona answers at
\* most once, in any order.
PerspectiveLists ==
    { ps \in SeqsUpTo(PerspectiveSet, MaxPerspectives) :
          \A j, k \in DOMAIN ps : j # k => ps[j] # ps[k] }

\* The session id the backend gives to the conversation opened by request k.
SessionNames ==
    <<"s1", "s2", "s3", "s4", "s5", "s6">>

\* The bodies the backend may answer a chat request with.  An optional field
\* is a sequence of at most one value, so an absent perspectives field (<<>>)
\* differs from an empty array of perspectives (<< <<>> >>).
ChatReplies(r) ==
    LET session == IF r.session_id = Undefined THEN SessionNames[r.id]
                   ELSE r.session_id
    IN  { [session_id |-> session, conversation_state |-> "exploring",
           response |-> <<ReplyText>>, perspectives |-> <<>>,
           suggestions |-> sg] : sg \in {<<>>, <<SuggestionText>>} }
        \cup
        { [session_id |-> session, conversation_state |-> "exploring",
           response |-> <<>>, perspectives |-> <<ps>>,
           suggestions |-> <<>>] :
               ps \in PerspectiveLists }

\* The conversations the chat list offers.
ConversationIds ==
    {"c1"}

\* A stored message as the backend returns it.
StoredMessage(role, text, persona) ==
    [role |-> role, content |-> text, suggestions |-> <<>>,
     persona |-> persona]

\* What the request of loadConversation may end with: fetch rejected, a body
\* that is not JSON, a JSON body without a messages array, or a conversation.
LoadOutcomes ==
    { [kind |-> k, messages |-> <<>>, stage |-> Undefined] :
          k \in {"fetchRejects", "notJson", "noMessages"} }
    \cup
    { [kind |-> "ok", messages |-> ms, stage |-> "structuring"] :
          ms \in { <<>>,
                   << StoredMessage("user", <<"o", "l", "d">>, Undefined),
                      StoredMessage("assistant", <<"y", "e", "s">>,
                                    "analyst") >> } }

\* The keys pressed, with and without Alt, held down or not.
Keys ==
    {"Escape", "k", "/", "n", "N", "t", "f", "i"}

KeyEvents ==
    [key : Keys, altKey : BOOLEAN, repeat : BOOLEAN]

\* The key events that reach the Alt+N branch or are ignored before it.
NewChatKeys ==
    [key : {"n", "N"}, altKey : BOOLEAN, repeat : BOOLEAN]

\* key.toLowerCase() on the keys above.
ToLowerCase(key) ==
    IF key = "N" THEN "n" ELSE key

Event(name, detail) ==
    [name |-> name, detail |-> detail]

\* ---------------------------------------------------------------------
\* Home: effects and handlers
\* ---------------------------------------------------------------------

\* The guide counts as dismissed in this visit when a handler closes it.
VisitsAfter(closed) ==
    IF closed
    THEN [visits EXCEPT ![Len(visits)].dismissed = TRUE]
    ELSE visits

\* The effects that run once after the first render: the theme effect and the
\* getting-started effect.  The saved theme and the preferred colour scheme
\* belong to the browser, so the theme effect may set either theme.
\* localStorage is taken to work, so the catch of the second effect is not
\* entered.
MountEffects ==
    /\ ~mounted
    /\ mounted' = TRUE
    /\ \E initialTheme \in {"light", "dark"} : theme' = initialTheme
    /\ showGettingStarted' = IF seenGettingStarted = Null THEN TRUE
                             ELSE showGettingStarted
    /\ visits' = Append(visits, [seen |-> seenGettingStarted # Null,
                                 autoOpened |-> showGettingStarted',
                                 dismissed |-> FALSE])
    /\ lastEvent' = Event("mount", <<>>)
    /\ UNCHANGED <<showShortcuts, showTemplateModal, showSearchModal,
                   showInsightsModal>>
    /\ UNCHANGED <<focus, seenGettingStarted, downloads>>
    /\ UNCHANGED <<chatVars, outsideHome>>

\* The page is loaded again: every useState cell starts over, the requests
\* of the old page have nobody to answer to, localStorage stays.
Reload ==
    /\ mounted
    /\ Len(visits) < MaxVisits
    /\ messages' = <<>>
    /\ input' = <<>>
    /\ isLoading' = FALSE
    /\ sessionId' = ""
    /\ conversationState' = "initial"
    /\ refreshTrigger' = 0
    /\ showTemplateModal' = FALSE
    /\ showSearchModal' = FALSE
    /\ showInsightsModal' = FALSE
    /\ showGettingStarted' = FALSE
    /\ multiPerspectiveMode' = FALSE
    /\ theme' = "light"
    /\ showShortcuts' = FALSE
    /\ mounted' = FALSE
    /\ focus' = "body"
    /\ sends' = {}
    /\ loads' = {}
    /\ lastEvent' = Event("reload", <<>>)
    /\ UNCHANGED <<seenGettingStarted, nextSend, nextLoad, downloads, visits>>
    /\ UNCHANGED outsideHome

\* A new chat that also empties the message input.
startNewChatClearsInput ==
    /\ messages' = <<>>
    /\ sessionId' = ""
    /\ conversationState' = "initial"
    /\ input' = <<>>
    /\ UNCHANGED <<isLoading, refreshTrigger, multiPerspectiveMode, sends,
                   loads, nextSend, nextLoad>>

\* startNewChat: setMessages([]); setSessionId(""); setConversationState("initial")
startNewChat ==
    /\ messages' = <<>>
    /\ sessionId' = ""
    /\ conversationState' = "initial"
    /\ UNCHANGED <<input, isLoading, refreshTrigger, multiPerspectiveMode,
                   sends, loads, nextSend, nextLoad>>

\* The New Chat button of the chat list (onNewChat).
onNewChat ==
    /\ mounted
    /\ startNewChat
    /\ lastEvent' = Event("onNewChat", <<>>)
    /\ UNCHANGED <<modalVars, browserVars, outsideHome>>

\* Escape that closes every open modal at once.
closeOnEscapeAll ==
    /\ showShortcuts' = FALSE
    /\ showTemplateModal' = FALSE
    /\ showSearchModal' = FALSE
    /\ showInsightsModal' = FALSE
    /\ showGettingStarted' = FALSE
    /\ focus' = IF \E f \in {showShortcuts, showTemplateModal,
                             showSearchModal, showInsightsModal,
                             showGettingStarted} : f
                THEN focus ELSE "input"

\* The Escape branch of handleKeyDown: the first open modal of the chain is
\* closed, and with none open the message input is focused.
closeOnEscape ==
    IF showShortcuts
    THEN /\ showShortcuts' = FALSE
         /\ UNCHANGED <<showTemplateModal, showSearchModal,
                        showInsightsModal, showGettingStarted, focus>>
    ELSE IF showTemplateModal
    THEN /\ showTemplateModal' = FALSE
         /\ UNCHANGED <<showShortcuts, showSearchModal, showInsightsModal,
                        showGettingStarted, focus>>
    ELSE IF showSearchModal
    THEN /\ showSearchModal' = FALSE
         /\ UNCHANGED <<showShortcuts, showTemplateModal, showInsightsModal,
                        showGettingStarted, focus>>
    ELSE IF showInsightsModal
    THEN /\ showInsightsModal' = FALSE
         /\ UNCHANGED <<showShortcuts, showTemplateModal, showSearchModal,
                        showGettingStarted, focus>>
    ELSE IF showGettingStarted
    THEN /\ showGettingStarted' = FALSE
         /\ UNCHANGED <<showShortcuts, showTemplateModal, showSearchModal,
                        showInsightsModal, focus>>
    ELSE /\ focus' = "input"
         /\ UNCHANGED modalVars

\* The branch of the if chain of handleKeyDown that an event takes.
KeyBranch(event) ==
    IF event.repeat THEN "repeat"
    ELSE IF event.altKey /\ ToLowerCase(event.key) = "k" THEN "Alt+K"
    ELSE IF event.altKey /\ event.key \in {"/", "?"} THEN "Alt+/"
    ELSE IF event.altKey /\ ToLowerCase(event.key) = "n" THEN "Alt+N"
    ELSE IF event.altKey /\ ToLowerCase(event.key) = "t" THEN "Alt+T"
    ELSE IF event.altKey /\ ToLowerCase(event.key) = "f" THEN "Alt+F"
    ELSE IF event.altKey /\ ToLowerCase(event.key) = "i" /\ sessionId # ""
    THEN "Alt+I"
    ELSE IF event.key = "Escape" THEN "Escape"
    ELSE "none"

\* The keydown listener of the window.  It is registered again after every
\* render that changes a state it reads, so it always sees the current state.
handleKeyDown(event) ==
    /\ mounted
    /\ LET branch == KeyBranch(event)
       IN  /\ lastEvent' = Event("keydown", <<branch>>)
           /\ CASE branch = "Alt+K" ->
                     /\ focus' = "input"
                     /\ UNCHANGED <<modalVars, chatVars>>
                [] branch = "Alt+/" ->
                     /\ showShortcuts' = ~showShortcuts
                     /\ UNCHANGED <<showTemplateModal, showSearchModal,
                                    showInsightsModal, showGettingStarted>>
                     /\ UNCHANGED <<focus, chatVars>>
                [] branch = "Alt+N" ->
                     /\ startNewChat
                     /\ UNCHANGED <<modalVars, focus>>
                [] branch = "Alt+T" ->
                     /\ showTemplateModal' = ~showTemplateModal
                     /\ UNCHANGED <<showShortcuts, showSearchModal,
                                    showInsightsModal, showGettingStarted>>
                     /\ UNCHANGED <<focus, chatVars>>
                [] branch = "Alt+F" ->
                     /\ showSearchModal' = ~showSearchModal
                     /\ UNCHANGED <<showShortcuts, showTemplateModal,
                                    showInsightsModal, showGettingStarted>>
                     /\ UNCHANGED <<focus, chatVars>>
                [] branch = "Alt+I" ->
                     /\ showInsightsModal' = ~showInsightsModal
                     /\ UNCHANGED <<showShortcuts, showTemplateModal,
                                    showSearchModal, showGettingStarted>>
                     /\ UNCHANGED <<focus, chatVars>>
                [] branch = "Escape" ->
                     /\ closeOnEscape
                     /\ UNCHANGED chatVars
                [] OTHER ->
                     UNCHANGED <<modalVars, focus, chatVars>>
    /\ visits' = VisitsAfter(showGettingStarted /\ ~showGettingStarted')
    /\ UNCHANGED <<theme, mounted, seenGettingStarted, downloads>>
    /\ UNCHANGED outsideHome

\* The Getting Started buttons of the header, of the empty chat and of the
\* menu: setShowGettingStarted(true).
onShowGettingStarted ==
    /\ mounted
    /\ showGettingStarted' = TRUE
    /\ lastEvent' = Event("onShowGettingStarted", <<>>)
    /\ UNCHANGED <<showShortcuts, showTemplateModal, showSearchModal,
                   showInsightsModal>>
    /\ UNCHANGED <<chatVars, browserVars, outsideHome>>

\* GettingStartedModal onClose (the X and the Get Started buttons) and
\* onDontShowAgain: both store the flag and close the guide.
onCloseGettingStarted(button) ==
    /\ mounted
    /\ showGettingStarted
    /\ seenGettingStarted' = "1"
    /\ showGettingStarted' = FALSE
    /\ visits' = VisitsAfter(TRUE)
    /\ lastEvent' = Event(button, <<>>)
    /\ UNCHANGED <<showShortcuts, showTemplateModal, showSearchModal,
                   showInsightsModal>>
    /\ UNCHANGED <<theme, mounted, focus, downloads>>
    /\ UNCHANGED <<chatVars, outsideHome>>

\* The Conversation Insights item of the menu, disabled without a session.
onShowInsights ==
    /\ mounted
    /\ sessionId # ""
    /\ showInsightsModal' = TRUE
    /\ lastEvent' = Event("onShowInsights", <<>>)
    /\ UNCHANGED <<showShortcuts, showTemplateModal, showSearchModal,
                   showGettingStarted>>
    /\ UNCHANGED <<chatVars, browserVars, outsideHome>>

\* The Templates item of the menu.
onShowTemplates ==
    /\ mounted
    /\ showTemplateModal' = TRUE
    /\ lastEvent' = Event("onShowTemplates", <<>>)
    /\ UNCHANGED <<showShortcuts, showSearchModal, showInsightsModal,
                   showGettingStarted>>
    /\ UNCHANGED <<chatVars, browserVars, outsideHome>>

\* The Multi-AI toggle: setMultiPerspectiveMode(!multiPerspectiveMode).
onToggleMultiPerspective ==
    /\ mounted
    /\ multiPerspectiveMode' = ~multiPerspectiveMode
    /\ lastEvent' = Event("onToggleMultiPerspective", <<>>)
    /\ UNCHANGED <<messages, input, isLoading, sessionId, conversationState,
                   refreshTrigger, sends, loads, nextSend, nextLoad>>
    /\ UNCHANGED <<modalVars, browserVars, outsideHome>>

\* onChange of the message input, which is disabled while isLoading.
setInput(text) ==
    /\ mounted
    /\ ~isLoading
    /\ input' = text
    /\ lastEvent' = Event("setInput", <<>>)
    /\ UNCHANGED <<messages, isLoading, sessionId, conversationState,
                   refreshTrigger, multiPerspectiveMode, sends, loads,
                   nextSend, nextLoad>>
    /\ UNCHANGED <<modalVars, browserVars, outsideHome>>

\* The requests a run may issue: those of the message form, and all of them
\* once suggestion buttons are clicked as well.
SendBudget(messageText) ==
    IF messageText = <<>> THEN MaxSends ELSE MaxSuggestionSends

\* sendMessage that tests the text for emptiness without trimming it.
sendMessageUntrimmed(messageText) ==
    LET messageToSend ==
            IF messageText # <<>> /\ messageText[1] # <<>>
            THEN messageText[1]
            ELSE input
    IN  /\ mounted
        /\ lastEvent' = Event("sendMessage", <<messageToSend>>)
        /\ IF messageToSend = <<>>
           THEN UNCHANGED <<chatVars, modalVars>>
           ELSE /\ nextSend <= SendBudget(messageText)
                /\ messages' = Append(messages, UserMessage(messageToSend))
                /\ input' = <<>>
                /\ isLoading' = TRUE
                /\ showTemplateModal' = FALSE
                /\ sends' = sends \cup
                       {[id |-> nextSend,
                         endpoint |-> IF multiPerspectiveMode
                                      THEN MultiPerspectiveEndpoint
                                      ELSE ChatEndpoint,
                         message |-> messageToSend,
                         session_id |-> IF sessionId = "" THEN Undefined
                                        ELSE sessionId,
                         multiPerspectiveMode |-> multiPerspectiveMode,
                         sessionId |-> sessionId]}
                /\ nextSend' = nextSend + 1
                /\ UNCHANGED <<sessionId, conversationState, refreshTrigger,
                               multiPerspectiveMode, loads, nextLoad>>
                /\ UNCHANGED <<showShortcuts, showSearchModal,
                               showInsightsModal, showGettingStarted>>
        /\ UNCHANGED <<browserVars, outsideHome>>

\* sendMessage up to the await of fetch.  messageText is the optional
\* argument: <<>> when the function is called without one, as the message
\* form does.
sendMessage(messageText) ==
    LET messageToSend ==
            IF messageText # <<>> /\ messageText[1] # <<>>
            THEN messageText[1]
            ELSE input
    IN  /\ mounted
        /\ lastEvent' = Event("sendMessage", <<messageToSend>>)
        /\ IF Trim(messageToSend) = <<>>
           THEN UNCHANGED <<chatVars, modalVars>>
           ELSE /\ nextSend <= SendBudget(messageText)
                /\ messages' = Append(messages, UserMessage(messageToSend))
                /\ input' = <<>>
                /\ isLoading' = TRUE
                /\ showTemplateModal' = FALSE
                /\ sends' = sends \cup
                       {[id |-> nextSend,
                         endpoint |-> IF multiPerspectiveMode
                                      THEN MultiPerspectiveEndpoint
                                      ELSE ChatEndpoint,
                         message |-> messageToSend,
                         session_id |-> IF sessionId = "" THEN Undefined
                                        ELSE sessionId,
                         multiPerspectiveMode |-> multiPerspectiveMode,
                         sessionId |-> sessionId]}
                /\ nextSend' = nextSend + 1
                /\ UNCHANGED <<sessionId, conversationState, refreshTrigger,
                               multiPerspectiveMode, loads, nextLoad>>
                /\ UNCHANGED <<showShortcuts, showSearchModal,
                               showInsightsModal, showGettingStarted>>
        /\ UNCHANGED <<browserVars, outsideHome>>

\* The message form: its input and its button are disabled while isLoading.
handleSubmit ==
    /\ ~isLoading
    /\ sendMessage(<<>>)

\* A suggestion button of a displayed message: onClick={() =>
\* sendMessage(suggestion)}.  The buttons are not disabled while isLoading.
onSuggestion(suggestion) ==
    /\ \E k \in DOMAIN messages : \E j \in DOMAIN messages[k].suggestions :
           messages[k].suggestions[j] = suggestion
    /\ sendMessage(<<suggestion>>)

\* The assistant messages made of a decoded reply, by a call of sendMessage
\* whose render had multiPerspectiveMode = multi.
ReplyMessages(multi, data) ==
    IF multi /\ data.perspectives # <<>>
    THEN [k \in 1..Len(data.perspectives[1]) |->
              Message("assistant", data.perspectives[1][k].message, <<>>,
                      data.perspectives[1][k].persona,
                      data.perspectives[1][k].provider)]
    ELSE << Message("assistant",
                    IF data.response # <<>> THEN data.response[1]
                    ELSE UndefinedText,
                    data.suggestions, Undefined, Undefined) >>

\* A reply handled by the mode the page is in when the reply arrives.
SendResolvesCurrentMode(r, data) ==
    /\ r \in sends
    /\ sends' = sends \ {r}
    /\ IF r.sessionId = ""
       THEN /\ sessionId' = data.session_id
            /\ refreshTrigger' = refreshTrigger + 1
       ELSE UNCHANGED <<sessionId, refreshTrigger>>
    /\ conversationState' = data.conversation_state
    /\ messages' = messages \o ReplyMessages(multiPerspectiveMode, data)
    /\ isLoading' = FALSE
    /\ lastEvent' = Event("reply", <<r, data>>)
    /\ UNCHANGED <<input, multiPerspectiveMode, loads, nextSend, nextLoad>>
    /\ UNCHANGED <<modalVars, browserVars, outsideHome>>

\* sendMessage after the await: the status was OK and the body was decoded.
\* sessionId and multiPerspectiveMode are those of the render that sent.
SendResolves(r, data) ==
    /\ r \in sends
    /\ sends' = sends \ {r}
    /\ IF r.sessionId = ""
       THEN /\ sessionId' = data.session_id
            /\ refreshTrigger' = refreshTrigger + 1
       ELSE UNCHANGED <<sessionId, refreshTrigger>>
    /\ conversationState' = data.conversation_state
    /\ messages' = messages \o ReplyMessages(r.multiPerspectiveMode, data)
    /\ isLoading' = FALSE
    /\ lastEvent' = Event("reply", <<r, data>>)
    /\ UNCHANGED <<input, multiPerspectiveMode, loads, nextSend, nextLoad>>
    /\ UNCHANGED <<modalVars, browserVars, outsideHome>>

\* sendMessage after the await: fetch rejected, the status was not OK or the
\* body was not JSON (the catch and the finally).
SendRejects(r) ==
    /\ r \in sends
    /\ sends' = sends \ {r}
    /\ messages' = Append(messages, ErrorMessage)
    /\ isLoading' = FALSE
    /\ lastEvent' = Event("replyFailed", <<r>>)
    /\ UNCHANGED <<input, sessionId, conversationState, refreshTrigger,
                   multiPerspectiveMode, loads, nextSend, nextLoad>>
    /\ UNCHANGED <<modalVars, browserVars, outsideHome>>

\* loadConversation up to the await of fetch (a conversation of the chat
\* list or a search result is clicked).
loadConversation(conversationId) ==
    /\ mounted
    /\ nextLoad <= MaxLoads
    /\ loads' = loads \cup {[id |-> nextLoad, conversationId |-> conversationId]}
    /\ nextLoad' = nextLoad + 1
    /\ lastEvent' = Event("loadConversation", <<conversationId>>)
    /\ UNCHANGED <<messages, input, isLoading, sessionId, conversationState,
                   refreshTrigger, multiPerspectiveMode, sends, nextSend>>
    /\ UNCHANGED <<modalVars, browserVars, outsideHome>>

\* The message loadConversation keeps of a stored message: role, content,
\* timestamp and suggestions only.
LoadedMessage(msg) ==
    Message(msg.role, msg.content, msg.suggestions, Undefined, Undefined)

\* A load that names the conversation before its body is decoded.
LoadSettlesSessionFirst(l, body) ==
    /\ l \in loads
    /\ loads' = loads \ {l}
    /\ sessionId' = l.conversationId
    /\ IF body.kind = "ok"
       THEN /\ messages' = [k \in 1..Len(body.messages) |->
                                LoadedMessage(body.messages[k])]
            /\ conversationState' = body.stage
       ELSE UNCHANGED <<messages, conversationState>>
    /\ lastEvent' = Event("loaded", <<l, body>>)
    /\ UNCHANGED <<input, isLoading, refreshTrigger, multiPerspectiveMode,
                   sends, nextSend, nextLoad>>
    /\ UNCHANGED <<modalVars, browserVars, outsideHome>>

\* loadConversation after the await.  A rejected fetch, a body that json()
\* cannot decode and a body whose messages is undefined (map of undefined
\* raises a TypeError) all end in the catch, before any setter is called.
LoadSettles(l, body) ==
    /\ l \in loads
    /\ loads' = loads \ {l}
    /\ IF body.kind = "ok"
       THEN /\ messages' = [k \in 1..Len(body.messages) |->
                                LoadedMessage(body.messages[k])]
            /\ sessionId' = l.conversationId
            /\ conversationState' = body.stage
       ELSE UNCHANGED <<messages, sessionId, conversationState>>
    /\ lastEvent' = Event("loaded", <<l, body>>)
    /\ UNCHANGED <<input, isLoading, refreshTrigger, multiPerspectiveMode,
                   sends, nextSend, nextLoad>>
    /\ UNCHANGED <<modalVars, browserVars, outsideHome>>

\* The entry of a message in the exported file: the object of the JSON
\* export, or the section of the Markdown export with its heading.
ExportEntry(format, msg) ==
    IF format = "json"
    THEN [role |-> msg.role, content |-> msg.content,
          persona |-> msg.persona, provider |-> msg.provider,
          suggestions |-> msg.suggestions]
    ELSE [role |-> IF msg.role = "user" THEN "You" ELSE "Big Brother",
          content |-> msg.content,
          persona |-> IF msg.persona # Undefined THEN msg.persona ELSE "",
          provider |-> "",
          suggestions |-> msg.suggestions]

\* exportConversation(format): the files downloaded once it has run.
exportConversation(format) ==
    IF sessionId = "" \/ Len(messages) = 0
    THEN downloads
    ELSE Append(downloads,
                [format |-> format,
                 extension |-> IF format = "json" THEN ".json" ELSE ".md",
                 type |-> IF format = "json" THEN "application/json"
                          ELSE "text/markdown",
                 id |-> sessionId,
                 stage |-> conversationState,
                 entries |-> [k \in 1..Len(messages) |->
                                  ExportEntry(format, messages[k])]])

\* The Export as JSON and Export as Markdown items of the menu, disabled
\* when hasMessages (messages.length > 0) is false.
onExport(format) ==
    /\ mounted
    /\ Len(messages) > 0
    /\ Len(downloads) < MaxExports
    /\ downloads' = exportConversation(format)
    /\ lastEvent' = Event("onExport", <<format>>)
    /\ UNCHANGED <<theme, mounted, focus, seenGettingStarted, visits>>
    /\ UNCHANGED <<modalVars, chatVars, outsideHome>>

\* ---------------------------------------------------------------------
\* Home: specifications
\* ---------------------------------------------------------------------

InitHome ==
    /\ RendererIdle
    /\ SearchConstructed
    /\ HomeConstructed
    /\ SidebarConstructed
    /\ HighlightConstructed

\* The page with its modals, its keyboard shortcuts and its guide, over
\* several page loads; conversations come from the chat list only.
NextModals ==
    \/ MountEffects
    \/ Reload
    \/ \E event \in KeyEvents : handleKeyDown(event)
    \/ onShowGettingStarted
    \/ \E button \in {"onClose", "onDontShowAgain"} :
            onCloseGettingStarted(button)
    \/ onShowInsights
    \/ \E c \in ConversationIds : loadConversation(c)
    \/ \E l \in loads : \E body \in LoadOutcomes : LoadSettles(l, body)

SpecModals ==
    InitHome /\ [][NextModals]_vars

\* The page with its message exchange, within one page load.
NextChat ==
    \/ MountEffects
    \/ \E text \in InputTexts : setInput(text)
    \/ handleSubmit
    \/ \E r \in sends : \E data \in ChatReplies(r) : SendResolves(r, data)
    \/ \E r \in sends : SendRejects(r)
    \/ onToggleMultiPerspective
    \/ onShowTemplates
    \/ onNewChat
    \/ \E event \in NewChatKeys : handleKeyDown(event)
    \/ \E c \in ConversationIds : loadConversation(c)
    \/ \E l \in loads : \E body \in LoadOutcomes : LoadSettles(l, body)

SpecChat ==
    InitHome /\ [][NextChat]_vars

\* The page with its message exchange and the export items of its menu.
NextExport ==
    \/ MountEffects
    \/ \E text \in InputTexts : setInput(text)
    \/ handleSubmit
    \/ \E r \in sends : \E data \in ChatReplies(r) : SendResolves(r, data)
    \/ \E r \in sends : SendRejects(r)
    \/ onNewChat
    \/ \E format \in {"json", "markdown"} : onExport(format)

SpecExport ==
    InitHome /\ [][NextExport]_vars

\* The texts typed in the runs with suggestion buttons: nothing, a blank and
\* a text.
TypedTexts ==
    InputTexts \cup { <<" ">> }

\* The suggestions of a reply: none, or a button with a text followed by a
\* button whose text is blank.
SuggestionLists ==
    { <<>>, <<SuggestionText, <<" ">> >> }

\* The single-shaped bodies the backend may answer a chat request with.
SuggestionReplies(r) ==
    { [session_id |-> IF r.session_id = Undefined THEN SessionNames[r.id]
                      ELSE r.session_id,
       conversation_state |-> "exploring",
       response |-> <<ReplyText>>, perspectives |-> <<>>,
       suggestions |-> sg] : sg \in SuggestionLists }

\* The page with its message exchange and the suggestion buttons of the
\* displayed messages.
NextSuggest ==
    \/ MountEffects
    \/ \E text \in TypedTexts : setInput(text)
    \/ handleSubmit
    \/ \E sg \in {SuggestionText, <<" ">>} : onSuggestion(sg)
    \/ \E r \in sends : \E data \in SuggestionReplies(r) : SendResolves(r, data)
    \/ \E r \in sends : SendRejects(r)

SpecSuggest ==
    InitHome /\ [][NextSuggest]_vars

\* ---------------------------------------------------------------------
\* SyntaxHighlighter (src/frontend/lib/markdown.tsx)
\* ---------------------------------------------------------------------

\* Length of a code string.
MaxCode == 2

CodeSigma ==
    {"a", "<", "\n"}

Codes ==
    SeqsUpTo(CodeSigma, MaxCode)

\* The language prop: omitted, the default, another language.
Languages ==
    {Undefined, "text", "js"}

HighlighterProps ==
    [code : Codes, language : Languages]

\* A highlighter that labels the code element with the language.
SyntaxHighlighterByLanguage(props) ==
    LET code == props.code
        language == IF props.language = Undefined THEN "text"
                    ELSE props.language
    IN  [type |-> "pre",
         className |-> "bg-gray-900 dark:bg-slate-950 text-green-400 p-4 rounded-lg my-2 overflow-x-auto border border-gray-700",
         children |->
             << [type |-> "code",
                 className |-> <<"text-sm font-mono", language>>,
                 children |-> <<code>>] >>]

\* SyntaxHighlighter({ code, language = "text" }): the element it returns.
\* language is bound and never read.
SyntaxHighlighter(props) ==
    LET code == props.code
        language == IF props.language = Undefined THEN "text"
                    ELSE props.language
    IN  [type |-> "pre",
         className |-> "bg-gray-900 dark:bg-slate-950 text-green-400 p-4 rounded-lg my-2 overflow-x-auto border border-gray-700",
         children |->
             << [type |-> "code",
                 className |-> "text-sm font-mono",
                 children |-> <<code>>] >>]

\* Two highlighted blocks are rendered one after the other.
InitHighlight ==
    /\ RendererIdle
    /\ SearchConstructed
    /\ HomeConstructed
    /\ SidebarConstructed
    /\ highlightCalls \in {<<p, q>> : p, q \in HighlighterProps}
    /\ highlighted = <<>>

RenderHighlighter ==
    /\ highlightCalls # <<>>
    /\ highlighted' = Append(highlighted,
            [props |-> Head(highlightCalls),
             element |-> SyntaxHighlighter(Head(highlightCalls))])
    /\ highlightCalls' = Tail(highlightCalls)
    /\ UNCHANGED <<rendererVars, searchVars, homeVars, sidebarVars>>

NextHighlight ==
    RenderHighlighter

SpecHighlight ==
    InitHighlight /\ [][NextHighlight]_vars

\* ---------------------------------------------------------------------
\* C13
\* ---------------------------------------------------------------------

\* C13: the guide opens by itself on a page load exactly when the flag is
\* absent from localStorage, and once a visit has shown and dismissed the
\* guide no later page load opens it by itself.
GuideOnlyOnFirstVisit ==
    /\ \A k \in DOMAIN visits : visits[k].autoOpened <=> ~visits[k].seen
    /\ \A j, k \in DOMAIN visits :
          (j < k /\ visits[j].dismissed) => ~visits[k].autoOpened

\* ---------------------------------------------------------------------
\* C14
\* ---------------------------------------------------------------------

\* The modal flags in the order of the Escape chain.
ModalFlags ==
    <<showShortcuts, showTemplateModal, showSearchModal, showInsightsModal,
      showGettingStarted>>

\* C14: a press of Escape with a modal open closes the first open modal of
\* the order shortcuts, templates, search, insights, getting started and
\* leaves the other four flags as they were; with no modal open it changes
\* no flag and nothing of the conversation, and focuses the message input.
EscapeClosesFirstOpen ==
    [][(lastEvent'.name = "keydown" /\ lastEvent'.detail = <<"Escape">>) =>
          IF \E k \in 1..5 : ModalFlags[k]
          THEN LET first == CHOOSE k \in 1..5 :
                                /\ ModalFlags[k]
                                /\ \A j \in 1..(k - 1) : ~ModalFlags[j]
               IN  /\ ModalFlags' = [ModalFlags EXCEPT ![first] = FALSE]
                   /\ UNCHANGED <<focus, chatVars>>
          ELSE /\ ModalFlags' = ModalFlags
               /\ focus' = "input"
               /\ UNCHANGED chatVars]_vars

\* Escape has just been pressed with the shortcuts, the search and the guide
\* open: the shortcuts are closed, the search and the guide still open.
EscapeClosedFirstOpen ==
    /\ lastEvent = Event("keydown", <<"Escape">>)
    /\ ~showShortcuts
    /\ ~showTemplateModal
    /\ showSearchModal
    /\ showInsightsModal
    /\ showGettingStarted
    /\ focus = "body"

\* ---------------------------------------------------------------------
\* C15
\* ---------------------------------------------------------------------

\* The New Chat button was clicked or Alt+N was pressed.
NewChatEvents ==
    { Event("onNewChat", <<>>), Event("keydown", <<"Alt+N">>) }

\* C15: the New Chat button and Alt+N leave an empty message list, an empty
\* session id and the stage initial, and keep the input text, the theme, the
\* multi-perspective mode, the loading flag and the five modal flags.
NewChatResetsOnlyConversation ==
    [][lastEvent' \in NewChatEvents =>
          /\ messages' = <<>>
          /\ sessionId' = ""
          /\ conversationState' = "initial"
          /\ UNCHANGED <<input, theme, multiPerspectiveMode, isLoading,
                         modalVars>>]_vars

\* Alt+N was pressed while a request was in flight, in dark theme and
\* multi-perspective mode, with the templates and the guide open.
NewChatWhileLoading ==
    /\ lastEvent = Event("keydown", <<"Alt+N">>)
    /\ messages = <<>>
    /\ sessionId = ""
    /\ conversationState = "initial"
    /\ isLoading
    /\ sends # {}
    /\ theme = "dark"
    /\ multiPerspectiveMode
    /\ showTemplateModal
    /\ showGettingStarted

\* ---------------------------------------------------------------------
\* C16
\* ---------------------------------------------------------------------

\* C16: choosing an export item while it is enabled downloads a file of the
\* chosen format that holds every message of the chat, in order.
ExportAlwaysDownloads ==
    [][lastEvent'.name = "onExport" =>
          /\ Len(downloads') = Len(downloads) + 1
          /\ downloads'[Len(downloads')].format = lastEvent'.detail[1]
          /\ Len(downloads'[Len(downloads')].entries) = Len(messages)
          /\ \A k \in DOMAIN messages :
                downloads'[Len(downloads')].entries[k].content
                    = messages[k].content]_vars

\* ---------------------------------------------------------------------
\* C18
\* ---------------------------------------------------------------------

\* C18: when the request of loadConversation settles with a decoded
\* conversation, the messages are those of the conversation, the session id
\* is the requested id and the stage is the stage of the conversation; when
\* the fetch fails, the body is not JSON or the body has no message list,
\* messages, session id and stage stay as they were.
LoadReplacesOnlyOnSuccess ==
    [][lastEvent'.name = "loaded" =>
          LET l == lastEvent'.detail[1]
              body == lastEvent'.detail[2]
          IN  IF body.kind = "ok"
              THEN /\ Len(messages') = Len(body.messages)
                   /\ \A k \in DOMAIN body.messages :
                         /\ messages'[k].role = body.messages[k].role
                         /\ messages'[k].content = body.messages[k].content
                   /\ sessionId' = l.conversationId
                   /\ conversationState' = body.stage
              ELSE UNCHANGED <<messages, sessionId, conversationState>>]_vars

\* A conversation of two messages has just been loaded.
ConversationLoaded ==
    /\ lastEvent.name = "loaded"
    /\ lastEvent.detail[2].kind = "ok"
    /\ Len(messages) = 2
    /\ messages[1].content = <<"o", "l", "d">>
    /\ messages[2].content = <<"y", "e", "s">>
    /\ sessionId = "c1"
    /\ conversationState = "structuring"

\* ---------------------------------------------------------------------
\* C19
\* ---------------------------------------------------------------------

MultiReplyFixedAtSend ==
    [][/\ \A r \in sends' \ sends :
             r.endpoint = IF multiPerspectiveMode
                          THEN MultiPerspectiveEndpoint ELSE ChatEndpoint
       /\ (/\ lastEvent'.name = "reply"
           /\ lastEvent'.detail[1].endpoint = MultiPerspectiveEndpoint
           /\ lastEvent'.detail[2].perspectives # <<>>) =>
             LET ps == lastEvent'.detail[2].perspectives[1]
             IN  /\ Len(messages') = Len(messages) + Len(ps)
                 /\ SubSeq(messages', 1, Len(messages)) = messages
                 /\ \A k \in DOMAIN ps :
                       LET m == messages'[Len(messages) + k]
                       IN  /\ m.role = "assistant"
                           /\ m.content = ps[k].message
                           /\ m.persona = ps[k].persona
                           /\ m.provider = ps[k].provider]_vars

\* A message was sent in multi-perspective mode, the mode was switched off
\* while the request was in flight, and the reply with two perspectives has
\* been appended as two messages, critic first.
MultiReplyAfterToggle ==
    /\ lastEvent.name = "reply"
    /\ lastEvent.detail[1].endpoint = MultiPerspectiveEndpoint
    /\ ~multiPerspectiveMode
    /\ Len(messages) = 3
    /\ messages[1].role = "user"
    /\ messages[2].persona = "critic"
    /\ messages[2].provider = "gemini"
    /\ messages[3].persona = "analyst"
    /\ messages[3].provider = "openai"

\* ---------------------------------------------------------------------
\* C21
\* ---------------------------------------------------------------------

\* The view still shows the conversation a request was sent in: the user
\* message of the request is still in the message list (a new chat empties
\* the list and a loaded conversation replaces it).
ShowsConversationOf(r) ==
    \E k \in DOMAIN messages : messages[k] = UserMessage(r.message)

\* C21: when the reply or the error message to a request arrives after the
\* view has left the conversation the request was sent in, nothing is
\* appended to the message list and the session id and the stage stay those
\* of the conversation loaded or started since.
ReplyLandsInItsConversation ==
    [][(/\ lastEvent'.name \in {"reply", "replyFailed"}
        /\ ~ShowsConversationOf(lastEvent'.detail[1])) =>
            /\ messages' = messages
            /\ sessionId' = sessionId
            /\ conversationState' = conversationState]_vars

\* ---------------------------------------------------------------------
\* C22
\* ---------------------------------------------------------------------

\* C22: isLoading is true exactly when a request of sendMessage is in
\* flight, also when a suggestion button sends a second message while the
\* first request has not settled.
LoadingTracksRequests ==
    isLoading <=> sends # {}

\* ---------------------------------------------------------------------
\* C23
\* ---------------------------------------------------------------------

\* C23: a call of sendMessage with a text that is not blank appends the user
\* message at once, and when its request settles at least one assistant
\* message is appended to the list (the error message alone when the request
\* failed) and isLoading is set to false.
EverySendAnswered ==
    [][/\ (/\ lastEvent'.name = "sendMessage"
           /\ Trim(lastEvent'.detail[1]) # <<>>) =>
             messages' = Append(messages, UserMessage(lastEvent'.detail[1]))
       /\ lastEvent'.name \in {"reply", "replyFailed"} =>
             /\ ~isLoading'
             /\ Len(messages') > Len(messages)
             /\ SubSeq(messages', 1, Len(messages)) = messages
             /\ \A k \in (Len(messages) + 1)..Len(messages') :
                   messages'[k].role = "assistant"
       /\ lastEvent'.name = "replyFailed" =>
             messages' = Append(messages, ErrorMessage)]_vars

\* ---------------------------------------------------------------------
\* C24
\* ---------------------------------------------------------------------

\* C24: a call of sendMessage whose text to send (the argument, or the input
\* when the argument is missing or empty) is empty or white space issues no
\* request and leaves messages, input, isLoading, the session id, the stage
\* and every other state of the page as they are.
BlankSendIsNoOp ==
    [][(/\ lastEvent'.name = "sendMessage"
        /\ Trim(lastEvent'.detail[1]) = <<>>) =>
            /\ sends' = sends
            /\ messages' = messages
            /\ input' = input
            /\ isLoading' = isLoading
            /\ sessionId' = sessionId
            /\ conversationState' = conversationState
            /\ UNCHANGED <<chatVars, modalVars, browserVars>>]_vars

\* A suggestion button whose text is one blank was clicked while a text was
\* typed in the input and a conversation was displayed: nothing was sent and
\* the typed text is still there.
BlankSuggestionClicked ==
    /\ lastEvent = Event("sendMessage", << <<" ">> >>)
    /\ input = <<"h", "i">>
    /\ Len(messages) >= 2
    /\ sends = {}
    /\ ~isLoading

\* ---------------------------------------------------------------------
\* C25
\* ---------------------------------------------------------------------

\* C25: whenever the trimmed query has fewer than 2 characters, and the
\* query effect has run, the result list is empty and the total count is 0,
\* also when a search for an earlier, longer query was in flight as the query
\* was shortened.
ShortQueryShowsNothing ==
    Len(Trim(searchQuery)) < 2 =>
        /\ searchResults = <<>>
        /\ totalCount = 0

\* ---------------------------------------------------------------------
\* ChatList (src/frontend/app/components/ChatList.tsx)
\* ---------------------------------------------------------------------

\* The conversations the backend lists.
ListedConversations ==
    {"c1", "c2"}

\* fetchConversations after the await, called by the mount effect:
\* setConversations(data).
fetchConversations ==
    /\ mounted
    /\ conversations = {}
    /\ conversations' = ListedConversations
    /\ UNCHANGED <<showSummary, summaryClick>>
    /\ UNCHANGED <<rendererVars, searchVars, homeVars, highlightVars,
                   summaryVars>>

\* The Summary Dialog is rendered: showSummary && currentConversationId,
\* where Home passes its sessionId as currentConversationId.
SummaryDialogVisible ==
    showSummary /\ sessionId # ""

\* The conversation the rendered dialog hands to ConversationSummaryView.
SummaryDialogConversation ==
    sessionId

\* The View Summary button of the row of conv: stopPropagation and
\* setShowSummary(true).  The dialog covers the list while it is rendered.
onViewSummary(conv) ==
    /\ conv \in conversations
    /\ ~SummaryDialogVisible
    /\ showSummary' = TRUE
    /\ summaryClick' = <<conv>>
    /\ UNCHANGED conversations
    /\ UNCHANGED <<rendererVars, searchVars, homeVars, highlightVars,
                   summaryVars>>

\* The close button of the dialog: setShowSummary(false).
onCloseSummary ==
    /\ SummaryDialogVisible
    /\ showSummary' = FALSE
    /\ UNCHANGED <<conversations, summaryClick>>
    /\ UNCHANGED <<rendererVars, searchVars, homeVars, highlightVars,
                   summaryVars>>

\* The row of conv is clicked: onSelectConversation(conv.id).
onSelectConversation(conv) ==
    /\ conv \in conversations
    /\ ~SummaryDialogVisible
    /\ loadConversation(conv)

InitChatList ==
    /\ RendererIdle
    /\ SearchConstructed
    /\ HomeConstructed
    /\ HighlightConstructed
    /\ SidebarConstructed

\* The page with its chat list: rows, New Chat and the summary dialog.
NextChatList ==
    \/ MountEffects
    \/ fetchConversations
    \/ \E conv \in ListedConversations : onSelectConversation(conv)
    \/ \E l \in loads : \E body \in LoadOutcomes : LoadSettles(l, body)
    \/ onNewChat
    \/ \E conv \in ListedConversations : onViewSummary(conv)
    \/ onCloseSummary

SpecChatList ==
    InitChatList /\ [][NextChatList]_vars

\* ---------------------------------------------------------------------
\* C26
\* ---------------------------------------------------------------------

\* C26: whenever the Conversation Summary dialog is rendered, the
\* conversation it shows is the one whose View Summary button was clicked
\* last, and a click on a View Summary button leaves the dialog rendered.
SummaryDialogOfClicked ==
    [][/\ SummaryDialogVisible' =>
             summaryClick' = <<SummaryDialogConversation'>>
       /\ summaryClick' # summaryClick => SummaryDialogVisible']_vars

\* ---------------------------------------------------------------------
\* ConversationSummaryView (src/unnamed/part_004)
\* ---------------------------------------------------------------------

\* Calls of the summary service in one run.
MaxSummaryCalls == 3

\* The values of the SummaryType enumeration, one button each.
SummaryTypes ==
    {"type1", "type2"}

\* interface ConversationSummary: its id, its conversation and its type.
Summary(summary_id, conversation_id, summary_type) ==
    [summary_id |-> summary_id, conversation_id |-> conversation_id,
     summary_type |-> summary_type]

\* What getConversationSummaries may resolve with for a conversation: no
\* summary, or the one summary stored for it.
SummaryLists(conversation) ==
    { <<>>, << Summary(0, conversation, "type1") >> }

\* The effect on [conversationId]: loadSummaries up to its await, for the
\* conversation the view is rendered with.
LoadSummariesEffect(conversation) ==
    /\ nextSummaryCall <= MaxSummaryCalls
    /\ summaryCalls' = summaryCalls \cup
            {[id |-> nextSummaryCall, kind |-> "load",
              conversationId |-> conversation, type |-> Undefined]}
    /\ nextSummaryCall' = nextSummaryCall + 1

\* The dialog is rendered: the view is mounted and its effect runs.
MountSummaryView(conversation) ==
    /\ summaryConversationId = ""
    /\ summaryConversationId' = conversation
    /\ LoadSummariesEffect(conversation)
    /\ UNCHANGED <<summaries, selectedSummary, loading, error>>
    /\ UNCHANGED <<rendererVars, searchVars, homeVars, highlightVars,
                   listVars>>

\* The parent renders the mounted view with another conversationId: the
\* cells are kept and the effect runs again.
conversationIdChanges(conversation) ==
    /\ summaryConversationId # ""
    /\ conversation # summaryConversationId
    /\ summaryConversationId' = conversation
    /\ LoadSummariesEffect(conversation)
    /\ UNCHANGED <<summaries, selectedSummary, loading, error>>
    /\ UNCHANGED <<rendererVars, searchVars, homeVars, highlightVars,
                   listVars>>

\* The dialog is closed: the view is unmounted, its cells are dropped and the
\* calls still in flight have no view to answer to.
UnmountSummaryView ==
    /\ summaryConversationId # ""
    /\ summaryConversationId' = ""
    /\ summaries' = <<>>
    /\ selectedSummary' = <<>>
    /\ loading' = FALSE
    /\ error' = Null
    /\ summaryCalls' = {}
    /\ UNCHANGED nextSummaryCall
    /\ UNCHANGED <<rendererVars, searchVars, homeVars, highlightVars,
                   listVars>>

\* loadSummaries after the await: setSummaries, and setSelectedSummary of
\* the first summary when there is one.
LoadSummariesResolves(call, conversationSummaries) ==
    /\ call \in summaryCalls
    /\ call.kind = "load"
    /\ summaryCalls' = summaryCalls \ {call}
    /\ summaries' = conversationSummaries
    /\ selectedSummary' = IF Len(conversationSummaries) > 0
                          THEN << conversationSummaries[1] >>
                          ELSE selectedSummary
    /\ UNCHANGED <<summaryConversationId, loading, error, nextSummaryCall>>
    /\ UNCHANGED <<rendererVars, searchVars, homeVars, highlightVars,
                   listVars>>

\* loadSummaries after the await: the service threw (the catch).
LoadSummariesRejects(call) ==
    /\ call \in summaryCalls
    /\ call.kind = "load"
    /\ summaryCalls' = summaryCalls \ {call}
    /\ error' = "Failed to load summaries"
    /\ UNCHANGED <<summaryConversationId, summaries, selectedSummary, loading,
                   nextSummaryCall>>
    /\ UNCHANGED <<rendererVars, searchVars, homeVars, highlightVars,
                   listVars>>

\* generateNewSummary(type) up to its await; the buttons are disabled while
\* loading.
generateNewSummary(type) ==
    /\ summaryConversationId # ""
    /\ ~loading
    /\ nextSummaryCall <= MaxSummaryCalls
    /\ loading' = TRUE
    /\ error' = Null
    /\ summaryCalls' = summaryCalls \cup
            {[id |-> nextSummaryCall, kind |-> "generate",
              conversationId |-> summaryConversationId, type |-> type]}
    /\ nextSummaryCall' = nextSummaryCall + 1
    /\ UNCHANGED <<summaryConversationId, summaries, selectedSummary>>
    /\ UNCHANGED <<rendererVars, searchVars, homeVars, highlightVars,
                   listVars>>

\* generateNewSummary after the await: the new summary is put in front of
\* the list and selected (try and finally).
GenerateResolves(call) ==
    /\ call \in summaryCalls
    /\ call.kind = "generate"
    /\ summaryCalls' = summaryCalls \ {call}
    /\ LET newSummary == Summary(call.id, call.conversationId, call.type)
       IN  /\ summaries' = <<newSummary>> \o summaries
           /\ selectedSummary' = <<newSummary>>
    /\ loading' = FALSE
    /\ UNCHANGED <<summaryConversationId, error, nextSummaryCall>>
    /\ UNCHANGED <<rendererVars, searchVars, homeVars, highlightVars,
                   listVars>>

\* generateNewSummary after the await: the service threw (catch and finally).
GenerateRejects(call) ==
    /\ call \in summaryCalls
    /\ call.kind = "generate"
    /\ summaryCalls' = summaryCalls \ {call}
    /\ error' = "Failed to generate summary"
    /\ loading' = FALSE
    /\ UNCHANGED <<summaryConversationId, summaries, selectedSummary,
                   nextSummaryCall>>
    /\ UNCHANGED <<rendererVars, searchVars, homeVars, highlightVars,
                   listVars>>

\* A summary of the Previous Summaries list (summaries.slice(1)) is clicked.
onSelectSummary(k) ==
    /\ summaryConversationId # ""
    /\ Len(summaries) > 1
    /\ k \in 2..Len(summaries)
    /\ selectedSummary' = << summaries[k] >>
    /\ UNCHANGED <<summaryConversationId, summaries, loading, error,
                   summaryCalls, nextSummaryCall>>
    /\ UNCHANGED <<rendererVars, searchVars, homeVars, highlightVars,
                   listVars>>

InitSummary ==
    /\ RendererIdle
    /\ SearchConstructed
    /\ HomeConstructed
    /\ HighlightConstructed
    /\ SidebarConstructed

NextSummary ==
    \/ \E conversation \in ListedConversations :
            MountSummaryView(conversation)
    \/ \E conversation \in ListedConversations :
            conversationIdChanges(conversation)
    \/ UnmountSummaryView
    \/ \E call \in summaryCalls :
            \E list \in SummaryLists(call.conversationId) :
                LoadSummariesResolves(call, list)
    \/ \E call \in summaryCalls : LoadSummariesRejects(call)
    \/ \E type \in SummaryTypes : generateNewSummary(type)
    \/ \E call \in summaryCalls : GenerateResolves(call)
    \/ \E call \in summaryCalls : GenerateRejects(call)
    \/ \E k \in 2..(MaxSummaryCalls + 1) : onSelectSummary(k)

SpecSummary ==
    InitSummary /\ [][NextSummary]_vars

\* ---------------------------------------------------------------------
\* C27
\* ---------------------------------------------------------------------

\* loadSummaries has completed for the conversation the view shows.
SummariesLoaded ==
    /\ summaryConversationId # ""
    /\ \A call \in summaryCalls :
          ~(call.kind = "load" /\ call.conversationId = summaryConversationId)

\* C27: once loadSummaries has completed for the current conversationId,
\* selectedSummary is null or one of summaries, also after conversationId
\* has changed to a conversation without summaries.
SelectedIsLoaded ==
    SummariesLoaded =>
        \/ selectedSummary = <<>>
        \/ \E k \in DOMAIN summaries : summaries[k] = selectedSummary[1]

\* ---------------------------------------------------------------------
\* C28
\* ---------------------------------------------------------------------

\* C28: for an input made of one triple-backtick span, the value returned
\* holds the preformatted block whose text between <code> and </code> is the
\* body of the span, character for character, whatever the body is made of.
FencedBodyPreserved ==
    (Done /\ content \in FencedInputs) =>
        Contains(result, PreOf(SubSeq(content, 4, Len(content) - 3)))

\* ---------------------------------------------------------------------
\* C29
\* ---------------------------------------------------------------------

\* C29: whenever the insights modal is open a session exists: Alt+I and the
\* Conversation Insights item open it only with a session id, and no later
\* step, a new chat included, leaves it open with the session id empty.
InsightsNeedSession ==
    showInsightsModal => sessionId # ""

====
